---- MODULE Spec2Model ----
(***************************************************************************)
(* Model of the network-monitoring analytics server: the chat endpoint     *)
(* (query router, SQL answering engine, retrieval answering engine), the   *)
(* tabular alert parser with its field extractors, and the ingest route    *)
(* with the alert store it writes to.                                      *)
(*                                                                         *)
(* Text is modelled as a sequence of one-character strings, so that        *)
(* toLowerCase, trim, includes, startsWith and the regular expressions of  *)
(* the source are computed on characters as the JavaScript computes them.  *)
(*                                                                         *)
(* In the comments ragEngine.js is src/unnamed/part_002, openai.js and     *)
(* supabase.js are src/unnamed/part_001 (supabase.js from its line 100     *)
(* on, cited by the line numbers of part_001), upload.js is                *)
(* src/server/routes/upload.js, which holds the upload, ingest and chat    *)
(* routes one after the other.                                             *)
(***************************************************************************)
EXTENDS Integers, Sequences, FiniteSets, TLC

(***************************************************************************)
(* Bounds of the model.                                                    *)
(***************************************************************************)
\* a generated chat question is a concatenation of at most MaxFrags fragments
MaxFrags == 2

\* a parsed document has at most MaxRows table rows
MaxRows == 3

\* an ingest request carries at most MaxFiles files
MaxFiles == 2

\* at most MaxFaults calls fail while the ingest requests run
MaxFaults == 2

(***************************************************************************)
(* Characters and the string functions of JavaScript that the source uses. *)
(***************************************************************************)
UpperAlpha ==
  <<"A","B","C","D","E","F","G","H","I","J","K","L","M","N","O","P","Q","R","S","T","U","V","W","X","Y","Z">>

LowerAlpha ==
  <<"a","b","c","d","e","f","g","h","i","j","k","l","m","n","o","p","q","r","s","t","u","v","w","x","y","z">>

Digits ==
  <<"0","1","2","3","4","5","6","7","8","9">>

Range(s) == {s[i] : i \in 1..Len(s)}

\* Op applied to the value of v.  TLC evaluates the argument of a definition at every
\* use of the parameter; a text that is computed is handed on through With, which
\* computes it once.
With(v, Op(_)) == CHOOSE r \in {Op(x) : x \in {v}} : TRUE

MinOf(S) == CHOOSE x \in S : \A y \in S : x <= y

MaxOf(S) == CHOOSE x \in S : \A y \in S : y <= x

\* \s of the regular expressions and the characters String.prototype.trim strips
IsSpace(c) == c \in {" ", "\n", "\t"}

DigitSet == Range(Digits)

IsDigit(c) == c \in DigitSet

\* the lower-case letter of each upper-case letter, and the converse
LowerOf == [c \in Range(UpperAlpha) |-> LowerAlpha[CHOOSE i \in 1..26 : UpperAlpha[i] = c]]

UpperOf == [c \in Range(LowerAlpha) |-> UpperAlpha[CHOOSE i \in 1..26 : LowerAlpha[i] = c]]

toLowerChar(c) == IF c \in DOMAIN LowerOf THEN LowerOf[c] ELSE c

toUpperChar(c) == IF c \in DOMAIN UpperOf THEN UpperOf[c] ELSE c

toLowerCase(s) == [i \in 1..Len(s) |-> toLowerChar(s[i])]

toUpperCase(s) == [i \in 1..Len(s) |-> toUpperChar(s[i])]

\* k occurs in s at (1-based) position i
MatchAt(s, i, k) ==
  /\ i >= 1
  /\ i + Len(k) - 1 <= Len(s)
  /\ \A j \in 1..Len(k) : s[i + j - 1] = k[j]

\* String.prototype.includes
includes(s, k) == \E i \in 1..(Len(s) - Len(k) + 1) : MatchAt(s, i, k)

\* String.prototype.startsWith
startsWith(s, p) == MatchAt(s, 1, p)

\* String.prototype.endsWith
endsWith(s, p) == MatchAt(s, Len(s) - Len(p) + 1, p)

\* String.prototype.trim
trim(s) ==
  LET keep == {i \in 1..Len(s) : ~IsSpace(s[i])}
  IN  IF keep = {} THEN <<>> ELSE SubSeq(s, MinOf(keep), MaxOf(keep))

\* s.replace(/<pat>\n?/g, ''): every occurrence of pat, with the newline that may
\* follow it, is removed, scanning from position i
RECURSIVE replaceFence(_, _, _)
replaceFence(s, pat, i) ==
  IF i > Len(s) THEN <<>>
  ELSE IF MatchAt(s, i, pat)
       THEN LET j == i + Len(pat)
            IN  replaceFence(s, pat, IF j <= Len(s) /\ s[j] = "\n" THEN j + 1 ELSE j)
       ELSE <<s[i]>> \o replaceFence(s, pat, i + 1)

\* the concatenation of a sequence of texts
RECURSIVE Concat(_)
Concat(ss) == IF ss = <<>> THEN <<>> ELSE Head(ss) \o Concat(Tail(ss))

(***************************************************************************)
(* Query router: the two keyword classifiers.                              *)
(***************************************************************************)
\* a keyword list of counting words only, for comparison
sqlKeywords_counting ==
  << <<"h","o","w"," ","m","a","n","y">>,
     <<"c","o","u","n","t">>,
     <<"t","o","t","a","l">>,
     <<"s","t","a","t","i","s","t","i","c","s">>,
     <<"s","t","a","t","s">>,
     <<"n","u","m","b","e","r"," ","o","f">> >>

sqlKeywords ==
  << <<"h","o","w"," ","m","a","n","y">>,
     <<"c","o","u","n","t">>,
     <<"t","o","t","a","l">>,
     <<"s","h","o","w">>,
     <<"l","i","s","t">>,
     <<"g","e","t">>,
     <<"f","i","n","d">>,
     <<"w","h","a","t"," ","a","r","e">>,
     <<"w","h","i","c","h">>,
     <<"w","h","e","n">>,
     <<"s","t","a","t","i","s","t","i","c","s">>,
     <<"s","t","a","t","s">>,
     <<"n","u","m","b","e","r"," ","o","f">>,
     <<"h","o","s","t","s">>,
     <<"a","l","e","r","t","s">>,
     <<"l","a","s","t">>,
     <<"r","e","c","e","n","t">> >>

ragKeywords ==
  << <<"w","h","y">>,
     <<"a","n","a","l","y","z","e">>,
     <<"r","e","c","o","m","m","e","n","d">>,
     <<"e","x","p","l","a","i","n">>,
     <<"p","a","t","t","e","r","n">>,
     <<"t","r","e","n","d">>,
     <<"c","a","u","s","e">>,
     <<"r","e","a","s","o","n">>,
     <<"w","h","a","t"," ","h","a","p","p","e","n","e","d">>,
     <<"d","i","a","g","n","o","s","e">>,
     <<"i","n","v","e","s","t","i","g","a","t","e">>,
     <<"u","n","d","e","r","s","t","a","n","d">>,
     <<"i","n","s","i","g","h","t">>,
     <<"s","u","g","g","e","s","t">> >>

\* sqlEngine.js shouldUseSQL
shouldUseSQL(question) ==
  With(toLowerCase(question), LAMBDA lowerQuestion :
    \E n \in 1..Len(sqlKeywords) : includes(lowerQuestion, sqlKeywords[n]))

\* ragEngine.js shouldUseRAG
shouldUseRAG(question) ==
  With(toLowerCase(question), LAMBDA lowerQuestion :
    \E n \in 1..Len(ragKeywords) : includes(lowerQuestion, ragKeywords[n]))

(***************************************************************************)
(* Chat endpoint: inputs.                                                  *)
(***************************************************************************)
QuestionFragments ==
  << <<"W","h","y"," ">>,
     <<"i","s"," ","i","t"," ","d","o","w","n">>,
     <<"A","L","E","R","T","S">>,
     <<"E","x","p","l","a","i","n"," ">>,
     <<"f","o","r","g","e","t">>,
     <<"h","e","l","l","o"," ">> >>

ExampleQuestions ==
  << <<"H","o","w"," ","m","a","n","y"," ","t","o","t","a","l"," ","a","l","e","r","t","s"," ","d","o"," ","w","e"," ","h","a","v","e","?">>,
     <<"W","h","y"," ","i","s"," ","T","R","T"," ","f","a","i","l","i","n","g","?">>,
     <<"W","h","y"," ","a","r","e"," ","t","h","e","r","e"," ","s","o"," ","m","a","n","y"," ","a","l","e","r","t","s","?">>,
     <<"W","h","a","t"," ","c","a","u","s","e","d"," ","t","h","e"," ","r","e","c","e","n","t"," ","o","u","t","a","g","e","s","?">>,
     <<"W","h","y"," ","i","s"," ","R","o","u","t","e","r","-","0","1"," ","f","a","i","l","i","n","g","?">>,
     <<"S","h","o","w"," ","m","e"," ","a","l","e","r","t","s"," ","f","r","o","m"," ","t","h","e"," ","l","a","s","t"," ","2"," ","d","a","y","s">>,
     <<"W","h","i","c","h"," ","h","o","s","t","s"," ","h","a","v","e"," ","t","h","e"," ","m","o","s","t"," ","a","l","e","r","t","s","?">>,
     <<"H","o","w"," ","m","a","n","y"," ","a","c","t","i","v","e"," ","p","r","o","b","l","e","m","s"," ","a","r","e"," ","t","h","e","r","e","?">>,
     <<"A","n","a","l","y","z","e"," ","t","h","e"," ","p","a","t","t","e","r","n"," ","o","f"," ","b","a","n","d","w","i","d","t","h"," ","i","s","s","u","e","s">>,
     <<"E","x","p","l","a","i","n"," ","t","h","e"," ","i","n","t","e","r","f","a","c","e"," ","d","o","w","n"," ","a","l","e","r","t","s">> >>

\* README.md 240-243: the examples listed under 'SQL Queries'
ReadmeSQLQueries == <<ExampleQuestions[1], ExampleQuestions[6], ExampleQuestions[7], ExampleQuestions[8]>>

\* README.md 246-249: the examples listed under 'RAG Queries'
ReadmeRAGQueries == <<ExampleQuestions[2], ExampleQuestions[9], ExampleQuestions[4], ExampleQuestions[10]>>

\* the texts built from at most n fragments (the empty text included)
RECURSIVE FragQuestions(_)
FragQuestions(n) ==
  IF n = 0 THEN {<<>>}
  ELSE LET shorter == FragQuestions(n - 1)
       IN  shorter \cup {q \o QuestionFragments[f] :
                           q \in shorter, f \in 1..Len(QuestionFragments)}

\* req.body.message: a string, a value that is not a string, or nothing at all
Messages ==
  {[type |-> "string", text |-> q] : q \in FragQuestions(MaxFrags) \cup Range(ExampleQuestions)}
    \cup {[type |-> "undefined", text |-> <<>>], [type |-> "number", text |-> <<>>]}

\* what the completion provider may answer to the SQL generation prompt ("BT" stands for
\* the backquote character, which a TLA+ string cannot hold)
ProviderSQLTexts ==
  << <<"S","E","L","E","C","T"," ","C","O","U","N","T","(","*",")"," ","F","R","O","M"," ","a","l","e","r","t","s",";">>,
     <<"BT","BT","BT","s","q","l","\n","s","e","l","e","c","t"," ","*"," ","f","r","o","m"," ","a","l","e","r","t","s","\n","BT","BT","BT">>,
     <<" "," ","s","e","l","e","c","t"," ","h","o","s","t"," ","f","r","o","m"," ","a","l","e","r","t","s"," "," ">>,
     <<"D","E","L","E","T","E"," ","F","R","O","M"," ","a","l","e","r","t","s">>,
     <<"BT","BT","BT","s","q","l","\n","D","R","O","P"," ","T","A","B","L","E"," ","a","l","e","r","t","s",";","\n","BT","BT","BT">>,
     <<"S","E","L","E","C","T","E","D">>,
     <<"W","I","T","H"," ","x"," ","A","S"," ","(","S","E","L","E","C","T"," ","1",")"," ","S","E","L","E","C","T"," ","*"," ","F","R","O","M"," ","x">>,
     <<>> >>

str_SELECT == <<"S","E","L","E","C","T">>

str_fence_sql == <<"BT","BT","BT","s","q","l">>

str_fence == <<"BT","BT","BT">>

\* a value returned by the store: data is null, or data is a list of rows
NullData == [isNull |-> TRUE, rows |-> <<>>]

Data(rows) == [isNull |-> FALSE, rows |-> rows]

AlertRow(pid, host, status) ==
  [id |-> pid, problem_id |-> pid, host |-> host, status |-> status,
   description |-> <<"l","i","n","k"," ","d","o","w","n">>, embedding |-> "vector"]

\* a description longer than the preview formatSQLResults makes of it
LongDescription == [i \in 1..130 |-> IF i % 10 = 0 THEN " " ELSE "x"]

\* sqlEngine.js 129: the row limit of the direct fetch
fetchLimit == 100

\* table alerts as the chat endpoint may find it: empty, one row, two rows (one without
\* host), and one row more than the direct fetch returns, the second without host and the
\* third with a long description
ChatTables ==
  { <<>>,
    <<AlertRow("12345", "Router-01", "PROBLEM")>>,
    <<AlertRow("12345", "Router-01", "PROBLEM"), AlertRow("777", "", "OK")>>,
    [n \in 1..(fetchLimit + 1) |->
       [AlertRow(ToString(n), IF n = 2 THEN "" ELSE "Router-01", "PROBLEM")
          EXCEPT !.description = IF n = 3 THEN LongDescription ELSE @]] }

\* sqlEngine.js 126-129: .from('alerts').select('*').limit(100), the first rows of the table
selectAll(table, count) ==
  SubSeq(table, 1, IF Len(table) < count THEN Len(table) ELSE count)

\* what supabase.rpc('execute_sql') may return as data: nothing, aggregates, columns, and
\* whole tables (a statement without LIMIT returns every row)
RpcData ==
  { NullData,
    Data(<<[count |-> "42"]>>),
    Data(<<[host |-> "Router-01"]>>),
    Data(<<[status |-> "PROBLEM", count |-> "7"]>>),
    Data(<<[host |-> "Router-01"], [host |-> "Switch-02"]>>) }
    \cup {Data(table) : table \in ChatTables}

\* what supabase.from('alerts').select('*').limit(100) may return as data
FetchData == {Data(selectAll(table, fetchLimit)) : table \in ChatTables}

\* the longest conversation history sent with a request
MaxTurns == 7

\* req.body.history as the client keeps it: the turns so far, the user's and the
\* assistant's in alternation, every third one with a field the engine does not read
Turn(n) ==
  IF n % 3 = 0
  THEN [role |-> IF n % 2 = 1 THEN "user" ELSE "assistant", content |-> <<"turn", ToString(n)>>,
        timestamp |-> "2024-01-15T10:30:00Z"]
  ELSE [role |-> IF n % 2 = 1 THEN "user" ELSE "assistant", content |-> <<"turn", ToString(n)>>]

\* no history (the default of upload.js 414) and the histories of 1 to MaxTurns turns
Histories == {[i \in 1..n |-> Turn(i)] : n \in 0..MaxTurns}

Hit(pid, host, similarity) ==
  [id |-> pid, problem_id |-> pid, host |-> host, description |-> "text",
   timestamp |-> "2024-01-15T10:30:00Z", status |-> "PROBLEM", similarity |-> similarity]

\* ragEngine.js 47-48: the threshold (0.7, in percent) and the number of results asked for
matchThreshold == 70
matchCount == 10

\* the ids of the rows of a table with more matches than are asked for
TableIds == <<"101","102","103","104","105","106","107","108","109","110","111","112">>

\* table alerts with the similarity (in percent) of each row to the question, in
\* storage order: empty, one match, two matches stored in ascending order, no match
\* (one row exactly at the threshold), and twelve matches with one row far below
AlertTables ==
  { <<>>,
    <<Hit("12345", "Router-01", 91)>>,
    <<Hit("777", "Router-01", 74), Hit("12345", "Router-01", 91)>>,
    <<Hit("5", "Router-01", 70), Hit("6", "Switch-02", 65)>>,
    <<Hit("9", "Switch-02", 40)>> \o
      [n \in 1..(matchCount + 2) |-> Hit(TableIds[n], "Router-01", 87 + n)] }

\* a match_alerts without LIMIT, for comparison
match_alerts_unlimited(table, match_threshold, match_count) ==
  SortSeq(SelectSeq(table, LAMBDA row : row.similarity > match_threshold),
          LAMBDA a, b : a.similarity > b.similarity)

\* supabase-setup.sql 60-91 match_alerts: the rows more similar than the threshold,
\* the most similar first, at most match_count of them
match_alerts(table, match_threshold, match_count) ==
  LET ordered == SortSeq(SelectSeq(table, LAMBDA row : row.similarity > match_threshold),
                         LAMBDA a, b : a.similarity > b.similarity)
  IN  SubSeq(ordered, 1, IF Len(ordered) < match_count THEN Len(ordered) ELSE match_count)

\* what supabase.rpc('match_alerts') may return as data (supabase.js 267-284, called
\* with the threshold and the count of ragEngine.js 45-49)
SearchData ==
  {NullData} \cup
  {Data(match_alerts(table, matchThreshold, matchCount)) : table \in AlertTables}

(***************************************************************************)
(* State: the chat endpoint, the parser, the ingest route and the store.   *)
(***************************************************************************)
VARIABLES
  chatPc,          \* where the request of POST /api/chat stands
  message,         \* req.body.message
  history,         \* req.body.history: the turns of the conversation so far
  engine,          \* the engine the handler invoked: "none", "sql" or "rag"
  sqlQuery,        \* processSQLQuestion: the statement returned by generateSQLQuery
  results,         \* processSQLQuestion: the rows returned by executeSQLQuery
  relevantAlerts,  \* processRAGQuestion: the hits of the similarity search
  messages,        \* generateRAGAnswer: the messages sent to the completion provider
  calls,           \* calls made for the request, by callee
  response         \* what the handler answered

chatVars ==
  <<chatPc, message, history, engine, sqlQuery, results, relevantAlerts, messages, calls,
    response>>

VARIABLES
  parsePc,      \* "each" inside $('table tr').each, then "returned" or "thrown"
  htmlContent,  \* the document: its table rows
  rowIndex,     \* the row the loop stands at
  alerts,       \* parseHTMLAlerts: the batch built so far
  clock         \* the clock tick last read

parseVars == <<parsePc, htmlContent, rowIndex, alerts, clock>>

VARIABLES
  alertsTable,   \* table alerts of the store: the rows inserted
  fileUploads,   \* table file_uploads of the store: the records inserted, in order
  ingest,        \* the handler's local variables and where the request stands
  faults         \* failures of the store, the provider and the file system so far

ingestVars == <<alertsTable, fileUploads, ingest, faults>>

VARIABLES
  embedPc,       \* where the life of one alert stands: "ingest" or "setup", "stored", "done"
  parsedAlert,   \* the alert as parseHTMLAlerts returned it: the six fields that are embedded
  storedAlert,   \* the row of the alert in table alerts, with its embedding
  embedCalls     \* the texts generateEmbedding was called with for the alert, and by whom

embedVars == <<embedPc, parsedAlert, storedAlert, embedCalls>>

vars == <<chatVars, parseVars, ingestVars, embedVars>>

NoCalls ==
  [sql |-> 0, rag |-> 0, completion |-> 0, embedding |-> 0,
   rpc |-> 0, fetch |-> 0, search |-> 0, format |-> 0]

NoResponse == [status |-> 0]

\* upload.js 443-449: the handler's catch block
ErrorResponse(details) ==
  [status |-> 500, error |-> "Failed to process your question", details |-> details]

(***************************************************************************)
(* Chat endpoint: the handler and the two engines, one action per await.   *)
(***************************************************************************)
\* a validation that tests the type only, for comparison
messageRejected_typeOnly(m) == m.type # "string"

\* upload.js 416: !message || typeof message !== 'string'
messageRejected(m) == m.type # "string" \/ m.text = <<>>

\* a routing that tests the RAG keywords first, for comparison
chooseEngine_ragFirst(question) ==
  IF shouldUseRAG(question) THEN "rag" ELSE "sql"

\* upload.js 426-436: which engine the handler calls
chooseEngine(question) ==
  IF shouldUseSQL(question) THEN "sql"
  ELSE IF shouldUseRAG(question) THEN "rag"
  ELSE "sql"

\* upload.js 412-436: validation and routing, up to the first await of the engine
ChatPost(m) ==
  /\ chatPc = "idle"
  /\ message' = m
  /\ \E h \in Histories : history' = h
  /\ IF messageRejected(m)
     THEN /\ response' = [status |-> 400, error |-> "Message is required"]
          /\ chatPc' = "done"
          /\ UNCHANGED <<engine, calls>>
     ELSE /\ engine' = chooseEngine(m.text)
          /\ calls' = [calls EXCEPT ![engine'] = @ + 1]
          /\ chatPc' = IF engine' = "sql" THEN "generate" ELSE "embed"
          /\ UNCHANGED response
  /\ UNCHANGED <<sqlQuery, results, relevantAlerts, messages>>
  /\ UNCHANGED <<parseVars, ingestVars, embedVars>>

\* sqlEngine.js 89-100: code fences and the trailing semicolon are stripped
cleanQuery(sqlText) ==
  With(trim(sqlText), LAMBDA trimmed :
    With(replaceFence(trimmed, str_fence_sql, 1), LAMBDA unfenced :
      With(trim(replaceFence(unfenced, str_fence, 1)), LAMBDA stripped :
        IF endsWith(stripped, <<";">>)
        THEN SubSeq(stripped, 1, Len(stripped) - 1)
        ELSE stripped)))

\* sqlEngine.js 39-105 generateSQLQuery, called at sqlEngine.js 206
GenerateSQL ==
  /\ chatPc = "generate"
  /\ calls' = [calls EXCEPT !.completion = @ + 1]
  /\ \/ \E n \in 1..Len(ProviderSQLTexts) :
          /\ sqlQuery' = cleanQuery(ProviderSQLTexts[n])
          /\ chatPc' = "execute"
          /\ UNCHANGED response
     \/ /\ response' = ErrorResponse("Failed to generate SQL query")
        /\ chatPc' = "done"
        /\ UNCHANGED sqlQuery
  /\ UNCHANGED <<message, history, engine, results, relevantAlerts, messages>>
  /\ UNCHANGED <<parseVars, ingestVars, embedVars>>

\* a guard that looks for SELECT anywhere in the statement, for comparison
isSelect_includes(query) ==
  With(toUpperCase(query), LAMBDA upper : includes(upper, str_SELECT))

\* sqlEngine.js 115-116: the statement passes the guard
isSelect(query) ==
  With(trim(query), LAMBDA trimmed :
    With(toUpperCase(trimmed), LAMBDA trimmedQuery : startsWith(trimmedQuery, str_SELECT)))

\* an executeSQLQuery that logs its errors and returns nothing instead of throwing,
\* for comparison
ExecuteSQL_swallowed ==
  /\ chatPc = "execute"
  /\ chatPc' = "format"
  /\ IF ~isSelect(sqlQuery)
     THEN /\ results' = NullData
          /\ UNCHANGED calls
     ELSE \/ \E data \in RpcData :
               /\ calls' = [calls EXCEPT !.rpc = @ + 1]
               /\ results' = data
          \/ \E directData \in FetchData \cup {NullData} :
               /\ calls' = [calls EXCEPT !.rpc = @ + 1, !.fetch = @ + 1]
               /\ results' = directData
  /\ UNCHANGED <<message, history, engine, sqlQuery, relevantAlerts, response, messages>>
  /\ UNCHANGED <<parseVars, ingestVars, embedVars>>

\* an executeSQLQuery that throws the error of the RPC without a direct fetch, for
\* comparison
ExecuteSQL_noFallback ==
  /\ chatPc = "execute"
  /\ IF ~isSelect(sqlQuery)
     THEN /\ response' = ErrorResponse("Only SELECT queries are allowed")
          /\ chatPc' = "done"
          /\ UNCHANGED <<results, calls>>
     ELSE \/ \E data \in RpcData :
               /\ calls' = [calls EXCEPT !.rpc = @ + 1]
               /\ results' = data
               /\ chatPc' = "format"
               /\ UNCHANGED response
          \/ /\ calls' = [calls EXCEPT !.rpc = @ + 1]
             /\ response' = ErrorResponse("store error")
             /\ chatPc' = "done"
             /\ UNCHANGED results
  /\ UNCHANGED <<message, history, engine, sqlQuery, relevantAlerts, messages>>
  /\ UNCHANGED <<parseVars, ingestVars, embedVars>>

\* sqlEngine.js 112-140 executeSQLQuery, called at sqlEngine.js 210
ExecuteSQL ==
  /\ chatPc = "execute"
  /\ IF ~isSelect(sqlQuery)
     THEN /\ response' = ErrorResponse("Only SELECT queries are allowed")
          /\ chatPc' = "done"
          /\ UNCHANGED <<results, calls>>
     ELSE \/ \E data \in RpcData :           \* the RPC answers
               /\ calls' = [calls EXCEPT !.rpc = @ + 1]
               /\ results' = data
               /\ chatPc' = "format"
               /\ UNCHANGED response
          \/ \E directData \in FetchData :   \* the RPC fails, the direct fetch answers
               /\ calls' = [calls EXCEPT !.rpc = @ + 1, !.fetch = @ + 1]
               /\ results' = directData
               /\ chatPc' = "format"
               /\ UNCHANGED response
          \/ /\ calls' = [calls EXCEPT !.rpc = @ + 1, !.fetch = @ + 1]
             /\ response' = ErrorResponse("store error")   \* both fail
             /\ chatPc' = "done"
             /\ UNCHANGED results
  /\ UNCHANGED <<message, history, engine, sqlQuery, relevantAlerts, messages>>
  /\ UNCHANGED <<parseVars, ingestVars, embedVars>>

str_ellipsis == <<".", ".", ".">>

\* sqlEngine.js 163-169: one row as it is sent to the provider
cleanedRow(item) ==
  [k \in (DOMAIN item \ {"embedding"}) \cup {"description"} |->
     IF k = "description"
     THEN IF "description" \in DOMAIN item /\ item.description # <<>>
          THEN SubSeq(item.description, 1, IF Len(item.description) < 100
                                           THEN Len(item.description) ELSE 100)
                 \o str_ellipsis
          ELSE <<"n","u","l","l">>
     ELSE item[k]]

\* a cleanedResults without the slice to 20 rows, for comparison
cleanedResults_all(rows) == [i \in 1..Len(rows) |-> cleanedRow(rows[i])]

\* sqlEngine.js 160-169: limitedResults and cleanedResults
cleanedResults(rows) ==
  [i \in 1..(IF Len(rows) < 20 THEN Len(rows) ELSE 20) |-> cleanedRow(rows[i])]

\* sqlEngine.js 194: r.host || r.problem_id
rowLabel(r) ==
  IF "host" \in DOMAIN r /\ r.host # "" THEN r.host
  ELSE IF "problem_id" \in DOMAIN r THEN r.problem_id
  ELSE "undefined"

\* a test that takes one row of several columns for a scalar, for comparison
isScalar_multiColumn(rows) == Len(rows) = 1 /\ Cardinality(DOMAIN rows[1]) > 1

\* sqlEngine.js 154: exactly one row with exactly one column
isScalar(rows) == Len(rows) = 1 /\ Cardinality(DOMAIN rows[1]) = 1

\* sqlEngine.js 216-224 and upload.js 438-442: the success response of the SQL engine
SqlResponse(answer) ==
  [status |-> 200, reply |-> answer, type |-> "sql",
   metadata |-> [query |-> sqlQuery,
                 resultCount |-> Len(results.rows),
                 results |-> SubSeq(results.rows, 1,
                                    IF Len(results.rows) < 10 THEN Len(results.rows) ELSE 10)]]

\* a formatSQLResults that throws when the provider fails, for comparison
FormatSQL_rethrow ==
  /\ chatPc = "format"
  /\ chatPc' = "done"
  /\ LET rows == results.rows
         shown == cleanedResults(rows)
     IN  IF results.isNull \/ Len(rows) = 0
         THEN /\ calls' = [calls EXCEPT !.format = @ + 1]
              /\ response' = SqlResponse([kind |-> "no_results"])
         ELSE IF isScalar(rows)
         THEN /\ calls' = [calls EXCEPT !.format = @ + 1]
              /\ response' = SqlResponse(
                   [kind |-> "scalar",
                    value |-> rows[1][CHOOSE k \in DOMAIN rows[1] : TRUE]])
         ELSE /\ calls' = [calls EXCEPT !.format = @ + 1, !.completion = @ + 1]
              /\ \/ response' = SqlResponse(
                      [kind |-> "narrated", shown |-> shown, total |-> Len(rows)])
                 \/ response' = ErrorResponse("Failed to generate chat completion")
  /\ UNCHANGED <<message, history, engine, sqlQuery, results, relevantAlerts, messages>>
  /\ UNCHANGED <<parseVars, ingestVars, embedVars>>

\* sqlEngine.js 148-196 formatSQLResults, called at sqlEngine.js 214
FormatSQL ==
  /\ chatPc = "format"
  /\ chatPc' = "done"
  /\ LET rows == results.rows
         shown == cleanedResults(rows)
     IN  IF results.isNull \/ Len(rows) = 0
         THEN /\ calls' = [calls EXCEPT !.format = @ + 1]
              /\ response' = SqlResponse([kind |-> "no_results"])
         ELSE IF isScalar(rows)
         THEN /\ calls' = [calls EXCEPT !.format = @ + 1]
              /\ response' = SqlResponse(
                   [kind |-> "scalar",
                    value |-> rows[1][CHOOSE k \in DOMAIN rows[1] : TRUE]])
         ELSE /\ calls' = [calls EXCEPT !.format = @ + 1, !.completion = @ + 1]
              /\ \/ response' = SqlResponse(
                      [kind |-> "narrated", shown |-> shown, total |-> Len(rows)])
                 \/ response' = SqlResponse(     \* the provider fails
                      [kind |-> "template", total |-> Len(rows),
                       entries |-> [i \in 1..(IF Len(shown) < 5 THEN Len(shown) ELSE 5)
                                      |-> rowLabel(shown[i])]])
  /\ UNCHANGED <<message, history, engine, sqlQuery, results, relevantAlerts, messages>>
  /\ UNCHANGED <<parseVars, ingestVars, embedVars>>

\* ragEngine.js 41: generateEmbedding(question)
EmbedQuestion ==
  /\ chatPc = "embed"
  /\ calls' = [calls EXCEPT !.embedding = @ + 1]
  /\ \/ /\ chatPc' = "search"
        /\ UNCHANGED response
     \/ /\ response' = ErrorResponse("Failed to generate embedding")
        /\ chatPc' = "done"
  /\ UNCHANGED <<message, history, engine, sqlQuery, results, relevantAlerts, messages>>
  /\ UNCHANGED <<parseVars, ingestVars, embedVars>>

\* a test that misses the empty list, for comparison
hasNoHits_nullOnly(data) == data.isNull

\* ragEngine.js 53: !relevantAlerts || relevantAlerts.length === 0
hasNoHits(data) == data.isNull \/ Len(data.rows) = 0

\* ragEngine.js 45-62: the similarity search and the answer given without hits
SearchAlerts ==
  /\ chatPc = "search"
  /\ calls' = [calls EXCEPT !.search = @ + 1]
  /\ \/ \E data \in SearchData :
          /\ relevantAlerts' = data.rows
          /\ IF hasNoHits(data)
             THEN /\ response' =
                       [status |-> 200, reply |-> [kind |-> "no_relevant_alerts"],
                        type |-> "rag",
                        metadata |-> [sources |-> <<>>, relevantCount |-> 0]]
                  /\ chatPc' = "done"
             ELSE /\ chatPc' = "answer"
                  /\ UNCHANGED response
     \/ /\ response' = ErrorResponse("store error")
        /\ chatPc' = "done"
        /\ UNCHANGED relevantAlerts
  /\ UNCHANGED <<message, history, engine, sqlQuery, results, messages>>
  /\ UNCHANGED <<parseVars, ingestVars, embedVars>>

\* ragEngine.js 74-80: one entry of metadata.sources
sourceOf(alert) ==
  [problem_id |-> alert.problem_id, host |-> alert.host, timestamp |-> alert.timestamp,
   description |-> alert.description, similarity |-> alert.similarity]

\* ragEngine.js 95-115 formatAlertsContext: the heading and one block per alert
formatAlertsContext(alertList) ==
  <<"Relevant Network Monitoring Alerts:">> \o
  Concat([i \in 1..Len(alertList) |->
            <<"Alert", ToString(i), alertList[i].problem_id, alertList[i].host,
              alertList[i].status, alertList[i].timestamp, alertList[i].description,
              ToString(alertList[i].similarity)>>])

\* ragEngine.js 124-146: the system instruction
systemMessage ==
  [role |-> "system",
   content |-> <<"You are a network monitoring expert analyzing alerts and issues.">>]

\* ragEngine.js 148: the number of turns of the history that are sent
historyWindow == 6

\* a history.slice(6), which drops the first turns instead of keeping the last, for
\* comparison
slice_fromStart(list, count) == SubSeq(list, count + 1, Len(list))

\* ragEngine.js 150: history.slice(-6), the last turns of the list
slice(list, count) ==
  SubSeq(list, IF Len(list) > count THEN Len(list) - count + 1 ELSE 1, Len(list))

\* ragEngine.js 124-166: the messages generateRAGAnswer builds
ragMessages(question, context, turns) ==
  LET recentHistory == slice(turns, historyWindow)
  IN  <<systemMessage>>
        \o [i \in 1..Len(recentHistory) |->
              [role |-> recentHistory[i].role, content |-> recentHistory[i].content]]
        \o <<[role |-> "user",
              content |-> context \o <<"Question: ">> \o question
                            \o <<"Please analyze the alerts above and provide a detailed answer.">>]>>

\* ragEngine.js 65-83 and 123-183: generateRAGAnswer and the response with sources
GenerateRAGAnswer ==
  /\ chatPc = "answer"
  /\ chatPc' = "done"
  /\ calls' = [calls EXCEPT !.completion = @ + 1]
  /\ messages' = ragMessages(message.text, formatAlertsContext(relevantAlerts), history)
  /\ \/ response' =
          [status |-> 200,
           reply |-> [kind |-> "rag_answer", analyzed |-> Len(relevantAlerts)],
           type |-> "rag",
           metadata |-> [sources |-> [i \in 1..Len(relevantAlerts) |->
                                        sourceOf(relevantAlerts[i])],
                         relevantCount |-> Len(relevantAlerts)]]
     \/ response' = ErrorResponse("Failed to generate chat completion")
  /\ UNCHANGED <<message, history, engine, sqlQuery, results, relevantAlerts>>
  /\ UNCHANGED <<parseVars, ingestVars, embedVars>>

\* the next request reaches the handler; nothing of the last one is kept
ChatFinish ==
  /\ chatPc = "done"
  /\ chatPc' = "idle"
  /\ message' = [type |-> "undefined", text |-> <<>>]
  /\ engine' = "none"
  /\ sqlQuery' = <<>>
  /\ results' = NullData
  /\ relevantAlerts' = <<>>
  /\ history' = <<>>
  /\ messages' = <<>>
  /\ calls' = NoCalls
  /\ response' = NoResponse
  /\ UNCHANGED <<parseVars, ingestVars, embedVars>>

ChatNext ==
  \/ \E m \in Messages : ChatPost(m)
  \/ GenerateSQL
  \/ ExecuteSQL
  \/ FormatSQL
  \/ EmbedQuestion
  \/ SearchAlerts
  \/ GenerateRAGAnswer
  \/ ChatFinish

(***************************************************************************)
(* Alert parser: table rows as cheerio presents them.                      *)
(*                                                                         *)
(* A row is its bgcolor attribute, its td cells (class attribute and       *)
(* text), the whitespace text that surrounds the cells, and whether one of *)
(* the extractors throws on it.                                            *)
(***************************************************************************)
\* $row.text(): the text of the cells and of the whitespace around them
RECURSIVE cellsText(_, _)
cellsText(cells, gap) ==
  IF cells = <<>> THEN <<>>
  ELSE Head(cells).text \o gap \o cellsText(Tail(cells), gap)

rowText(row) == row.gap \o cellsText(row.cells, row.gap)

\* cells.eq(n).text().trim(), n counted from 0
cellText(row, n) ==
  IF n + 1 <= Len(row.cells)
  THEN With(row.cells[n + 1].text, LAMBDA text : trim(text))
  ELSE <<>>

\* $row.find('[class*="hint"]').text().trim()
RECURSIVE classText(_, _)
classText(cells, hint) ==
  IF cells = <<>> THEN <<>>
  ELSE (IF includes(Head(cells).cls, hint) THEN Head(cells).text ELSE <<>>)
         \o classText(Tail(cells), hint)

findByClass(row, hint) == With(classText(row.cells, hint), LAMBDA text : trim(text))

\* the first index from i on that holds no white space (Len + 1 if there is none)
skipSpaces(text, i) ==
  MinOf({j \in i..(Len(text) + 1) : j = Len(text) + 1 \/ ~IsSpace(text[j])})

\* the capture of the leftmost match of pat followed by (white space and) characters of
\* the class; hay is the text in which pat is looked for, text the one captured from
captureAfter(text, hay, pat, spaces, InClass(_)) ==
  LET from(i) == IF spaces THEN skipSpaces(text, i + Len(pat)) ELSE i + Len(pat)
      starts == {i \in 1..Len(text) :
                   /\ MatchAt(hay, i, pat)
                   /\ from(i) <= Len(text)
                   /\ InClass(text[from(i)])}
  IN  IF starts = {} THEN <<>>
      ELSE With(from(MinOf(starts)), LAMBDA b :
             SubSeq(text, b, MinOf({j \in b..(Len(text) + 1) :
                                      j = Len(text) + 1 \/ ~InClass(text[j])}) - 1))

\* text.match(/<label>\s*(<class>+)/): the capture of the leftmost match, <<>> if
\* there is none; ci is the i flag, spaces tells whether \s* is part of the pattern
regexCapture(text, label, ci, spaces, InClass(_)) ==
  IF ci
  THEN With(toLowerCase(text), LAMBDA hay :
         With(toLowerCase(label), LAMBDA pat :
           captureAfter(text, hay, pat, spaces, InClass)))
  ELSE captureAfter(text, text, label, spaces, InClass)

\* [^\s,]
IsHostChar(c) == ~IsSpace(c) /\ c # ","

(***************************************************************************)
(* Dates.  An instant is the decimal text of its epoch milliseconds; the   *)
(* ISO-8601 text of an instant is written [iso |-> ms].                    *)
(***************************************************************************)
DateTable ==
  << [text |-> <<"2","0","2","4","-","0","1","-","1","5"," ","1","0",":","3","0",":","0","0">>,
      ms |-> <<"1","7","0","5","3","1","4","6","0","0","0","0","0">>],
     [text |-> <<"2","0","2","4","-","0","1","-","1","5"," ","1","2",":","4","5",":","0","0">>,
      ms |-> <<"1","7","0","5","3","2","2","7","0","0","0","0","0">>] >>

\* the instants the clock may show while a document is parsed, in order
ClockTicks ==
  << <<"1","7","9","3","5","5","7","8","0","0","1","2","3">>,
     <<"1","7","9","3","5","5","7","8","0","0","4","5","6">> >>

\* new Date(value): the epoch milliseconds, <<>> for an Invalid Date
parseDate(value) ==
  IF \E n \in 1..Len(DateTable) : DateTable[n].text = value
  THEN DateTable[CHOOSE n \in 1..Len(DateTable) : DateTable[n].text = value].ms
  ELSE <<>>

\* parser.js 271-274 isValidDate
isValidDate(dateString) == parseDate(dateString) # <<>>

\* Date.prototype.toISOString
toISOString(ms) == [iso |-> ms]

\* new Date(isoText).getTime()
getTime(isoText) == isoText.iso

(***************************************************************************)
(* Field extractors.                                                       *)
(***************************************************************************)
str_PROBLEM == <<"P","R","O","B","L","E","M">>

str_OK == <<"O","K">>

str_RESOLVED == <<"R","E","S","O","L","V","E","D">>

str_UNKNOWN == <<"U","N","K","N","O","W","N">>

str_CRITICAL == <<"C","R","I","T","I","C","A","L">>

str_DISASTER == <<"D","I","S","A","S","T","E","R">>

str_HIGH == <<"H","I","G","H">>

str_AVERAGE == <<"A","V","E","R","A","G","E">>

str_WARNING == <<"W","A","R","N","I","N","G">>

str_LOW == <<"L","O","W">>

str_INFORMATION == <<"I","N","F","O","R","M","A","T","I","O","N">>

str_red == <<"r","e","d">>

str_hash_ff == <<"#","f","f">>

str_green == <<"g","r","e","e","n">>

str_hash_0f == <<"#","0","f">>

str_host == <<"h","o","s","t">>

str_time == <<"t","i","m","e">>

str_date == <<"d","a","t","e">>

label_Host == <<"H","o","s","t",":">>

label_ProblemID == <<"P","r","o","b","l","e","m"," ","I","D",":">>

label_ID == <<"I","D",":">>

label_hash == <<"#">>

label_EventID == <<"E","v","e","n","t"," ","I","D",":">>

\* parser.js 50-66 extractTimestamp; now is what new Date() shows
extractTimestamp(row, now) ==
  With(<<cellText(row, 0), findByClass(row, str_time), findByClass(row, str_date)>>,
       LAMBDA patterns :
    LET good == {n \in 1..3 : patterns[n] # <<>> /\ isValidDate(patterns[n])}
    IN  IF good # {}
        THEN toISOString(parseDate(patterns[MinOf(good)]))
        ELSE toISOString(now))

\* parser.js 71-83 extractStatus
extractStatus(row) ==
  With(toUpperCase(rowText(row)), LAMBDA text :
  LET bgcolor == row.bgcolor
  IN  IF includes(text, str_PROBLEM) THEN str_PROBLEM
      ELSE IF includes(text, str_OK) THEN str_OK
      ELSE IF includes(text, str_RESOLVED) THEN str_RESOLVED
      ELSE IF includes(toLowerCase(bgcolor), str_red) \/ includes(bgcolor, str_hash_ff)
      THEN str_PROBLEM
      ELSE IF includes(toLowerCase(bgcolor), str_green) \/ includes(bgcolor, str_hash_0f)
      THEN str_OK
      ELSE str_UNKNOWN)

\* an extractSeverity whose default does not look at the status, for comparison
extractSeverity_alwaysLow(row) ==
  With(toUpperCase(rowText(row)), LAMBDA text :
      IF includes(text, str_DISASTER) \/ includes(text, str_CRITICAL) THEN str_CRITICAL
      ELSE IF includes(text, str_HIGH) THEN str_HIGH
      ELSE IF includes(text, str_AVERAGE) \/ includes(text, str_WARNING) THEN str_WARNING
      ELSE str_LOW)

\* parser.js 88-98 extractSeverity
extractSeverity(row) ==
  With(toUpperCase(rowText(row)), LAMBDA text :
      IF includes(text, str_DISASTER) \/ includes(text, str_CRITICAL) THEN str_CRITICAL
      ELSE IF includes(text, str_HIGH) THEN str_HIGH
      ELSE IF includes(text, str_AVERAGE) \/ includes(text, str_WARNING) THEN str_WARNING
      ELSE IF includes(text, str_LOW) \/ includes(text, str_INFORMATION) THEN str_LOW
      ELSE IF extractStatus(row) = str_PROBLEM THEN str_WARNING ELSE str_LOW)

\* an extractHost without the default, for comparison
extractHost_noDefault(row) ==
  With(rowText(row), LAMBDA text :
    With(<<findByClass(row, str_host),
           cellText(row, 1),
           regexCapture(text, label_Host, TRUE, TRUE, IsHostChar)>>, LAMBDA patterns :
      LET good == {n \in 1..3 : Len(patterns[n]) > 0 /\ Len(patterns[n]) < 100}
      IN  IF good # {} THEN patterns[MinOf(good)] ELSE <<>>))

\* parser.js 103-123 extractHost
extractHost(row) ==
  With(rowText(row), LAMBDA text :
    With(<<findByClass(row, str_host),
           cellText(row, 1),
           regexCapture(text, label_Host, TRUE, TRUE, IsHostChar)>>, LAMBDA patterns :
      LET good == {n \in 1..3 : Len(patterns[n]) > 0 /\ Len(patterns[n]) < 100}
      IN  IF good # {} THEN patterns[MinOf(good)] ELSE str_UNKNOWN))

\* String.prototype.substring(0, n)
substring0(s, n) == SubSeq(s, 1, IF Len(s) < n THEN Len(s) ELSE n)

\* an extractProblemId that does not cut the generated id, for comparison
extractProblemId_uncut(row, now) ==
  With(rowText(row), LAMBDA text :
    With(<<regexCapture(text, label_ProblemID, TRUE, TRUE, IsDigit),
           regexCapture(text, label_ID, TRUE, TRUE, IsDigit),
           regexCapture(text, label_hash, FALSE, FALSE, IsDigit),
           regexCapture(text, label_EventID, TRUE, TRUE, IsDigit)>>, LAMBDA patterns :
      LET good == {n \in 1..4 : patterns[n] # <<>>}
      IN  IF good # {} THEN patterns[MinOf(good)]
          ELSE extractHost(row) \o <<"-">> \o getTime(extractTimestamp(row, now))))

\* parser.js 179-199 extractProblemId; now is what new Date() shows in the fallback
extractProblemId(row, now) ==
  With(rowText(row), LAMBDA text :
    With(<<regexCapture(text, label_ProblemID, TRUE, TRUE, IsDigit),
           regexCapture(text, label_ID, TRUE, TRUE, IsDigit),
           regexCapture(text, label_hash, FALSE, FALSE, IsDigit),
           regexCapture(text, label_EventID, TRUE, TRUE, IsDigit)>>, LAMBDA patterns :
      LET good == {n \in 1..4 : patterns[n] # <<>>}
      IN  IF good # {} THEN patterns[MinOf(good)]
          ELSE With(extractHost(row) \o <<"-">> \o getTime(extractTimestamp(row, now)),
                    LAMBDA id : substring0(id, 20))))

(***************************************************************************)
(* Alert parser.                                                           *)
(***************************************************************************)
\* a callback that reads the host from the second cell and accepts every record, for
\* comparison
parseRow_secondCell(row, now1, now2) ==
  IF Len(row.cells) = 0 THEN <<>>
  ELSE <<[timestamp |-> extractTimestamp(row, now1),
          status |-> extractStatus(row),
          severity |-> extractSeverity(row),
          host |-> cellText(row, 1),
          problem_id |-> extractProblemId(row, now2)]>>

\* parser.js 15-38: the records one row adds to the batch when no extractor throws;
\* now1 and now2 are the clock readings of its two extractTimestamp calls. Of the ten
\* fields of a record the model keeps timestamp, status, severity, host and problem_id
parseRow(row, now1, now2) ==
  IF Len(row.cells) = 0 THEN <<>>
  ELSE With([timestamp |-> extractTimestamp(row, now1),
             status |-> extractStatus(row),
             severity |-> extractSeverity(row),
             host |-> extractHost(row),
             problem_id |-> extractProblemId(row, now2)], LAMBDA alert :
         IF alert.problem_id # <<>> /\ alert.host # <<>> THEN <<alert>> ELSE <<>>)

\* a parser whose try/catch is around the whole loop, for comparison
rowErrorCaught_outside == FALSE

\* parser.js 14, 39-41: the try/catch is inside the callback of each row
rowErrorCaught == TRUE

\* parser.js 8-45 parseHTMLAlerts, on a document that is parsed within one clock tick
RECURSIVE parseHTMLAlerts(_, _)
parseHTMLAlerts(rows, now) ==
  IF rows = <<>> THEN <<>>
  ELSE (IF Head(rows).raises THEN <<>> ELSE parseRow(Head(rows), now, now))
         \o parseHTMLAlerts(Tail(rows), now)

(***************************************************************************)
(* Alert parser: documents and the parse of one document, row by row.      *)
(***************************************************************************)
\* src/unnamed/part_000 48-56: the red row of the sample document
RowRed ==
  [bgcolor |-> <<"#","f","f","0","0","0","0">>,
   cells |-> <<[cls |-> <<>>, text |-> <<"2","0","2","4","-","0","1","-","1","5"," ","1","0",":","3","0",":","0","0">>],
              [cls |-> <<>>, text |-> <<"P","R","O","B","L","E","M">>],
              [cls |-> <<>>, text |-> <<"R","o","u","t","e","r","-","0","1">>],
              [cls |-> <<>>, text |-> <<"I","n","t","e","r","f","a","c","e"," ","G","i","g","a","b","i","t","E","t","h","e","r","n","e","t","0","/","0","/","1"," ","i","s"," ","d","o","w","n">>],
              [cls |-> <<>>, text |-> <<"P","r","o","b","l","e","m"," ","I","D",":"," ","1","2","3","4","5">>],
              [cls |-> <<>>, text |-> <<"S","e","v","e","r","i","t","y",":"," ","H","I","G","H">>],
              [cls |-> <<>>, text |-> <<"D","u","r","a","t","i","o","n",":"," ","2","h"," ","1","5","m">>]>>,
   gap |-> <<"\n"," ">>,
   raises |-> FALSE]

\* src/unnamed/part_000 57-63: the green row of the sample document
RowGreen ==
  [bgcolor |-> <<"#","0","0","f","f","0","0">>,
   cells |-> <<[cls |-> <<>>, text |-> <<"2","0","2","4","-","0","1","-","1","5"," ","1","2",":","4","5",":","0","0">>],
              [cls |-> <<>>, text |-> <<"O","K">>],
              [cls |-> <<>>, text |-> <<"R","o","u","t","e","r","-","0","1">>],
              [cls |-> <<>>, text |-> <<"I","n","t","e","r","f","a","c","e"," ","G","i","g","a","b","i","t","E","t","h","e","r","n","e","t","0","/","0","/","1"," ","i","s"," ","u","p">>],
              [cls |-> <<>>, text |-> <<"P","r","o","b","l","e","m"," ","I","D",":"," ","1","2","3","4","5">>]>>,
   gap |-> <<"\n"," ">>,
   raises |-> FALSE]

\* a header row: th cells only, no td
RowHeader ==
  [bgcolor |-> <<>>,
   cells |-> <<>>,
   gap |-> <<>>,
   raises |-> FALSE]

\* a row on which an extractor throws
RowBroken ==
  [bgcolor |-> <<>>,
   cells |-> <<[cls |-> <<>>, text |-> <<"2","0","2","4","-","0","1","-","1","5"," ","1","0",":","3","0",":","0","0">>],
              [cls |-> <<>>, text |-> <<"R","o","u","t","e","r","-","0","9">>],
              [cls |-> <<>>, text |-> <<"I","D",":"," ","5","5">>]>>,
   gap |-> <<" ">>,
   raises |-> TRUE]

\* a row without an id pattern and without a parseable date
RowNoId ==
  [bgcolor |-> <<>>,
   cells |-> <<[cls |-> <<>>, text |-> <<"n","/","a">>],
              [cls |-> <<>>, text |-> <<"S","w","i","t","c","h","-","0","2">>],
              [cls |-> <<>>, text |-> <<"l","i","n","k"," ","f","l","a","p">>]>>,
   gap |-> <<>>,
   raises |-> FALSE]

\* a row with class-hinted cells and an event id
RowEvent ==
  [bgcolor |-> <<"g","r","e","e","n">>,
   cells |-> <<[cls |-> <<"t","i","m","e">>, text |-> <<"2","0","2","4","-","0","1","-","1","5"," ","1","2",":","4","5",":","0","0">>],
              [cls |-> <<"h","o","s","t">>, text |-> <<"C","o","r","e","-","S","W">>],
              [cls |-> <<>>, text |-> <<"E","v","e","n","t"," ","I","D",":"," ","7","7","7"," ","r","e","s","o","l","v","e","d">>]>>,
   gap |-> <<" ">>,
   raises |-> FALSE]

\* a second row of the same host without an id pattern and without a parseable date;
\* its second cell is empty and the host is written with its label
RowOk ==
  [bgcolor |-> <<>>,
   cells |-> <<[cls |-> <<>>, text |-> <<"n","/","a">>],
              [cls |-> <<>>, text |-> <<>>],
              [cls |-> <<>>, text |-> <<"O","K"," ","H","o","s","t",":"," ","S","w","i","t","c","h","-","0","2">>]>>,
   gap |-> <<" ">>,
   raises |-> FALSE]

RowPool == {RowRed, RowGreen, RowHeader, RowBroken, RowNoId, RowEvent, RowOk}

\* a name of the given length, written with one letter
NameOf(letter, length) == [i \in 1..length |-> letter]

\* the lengths of the host candidates: none, the shortest, and around the limit of
\* parser.js 117
HostLengths == {0, 1, 99, 100, 101}

\* a row whose second cell holds a name of b letters, whose cell of class "host" holds a
\* name of a letters and whose last cell holds "Host: " and a name of c letters (nothing
\* when c is 0)
RowHosts(a, b, c) ==
  [bgcolor |-> <<>>,
   cells |-> <<[cls |-> <<>>, text |-> <<"n","/","a">>],
              [cls |-> <<>>, text |-> NameOf("b", b)],
              [cls |-> <<"h","o","s","t">>, text |-> NameOf("a", a)],
              [cls |-> <<>>, text |-> IF c = 0 THEN <<>>
                                      ELSE <<"H","o","s","t",":"," ">> \o NameOf("c", c)]>>,
   gap |-> <<" ">>,
   raises |-> FALSE]

HostRows == {RowHosts(a, b, c) : a \in HostLengths, b \in HostLengths, c \in HostLengths}

\* rows for the guard of parser.js 34: a header row, a row on which an extractor throws,
\* the red row, a row without any host candidate and without an id pattern, and a row
\* whose only host candidate is too long
GuardRows == {RowHeader, RowBroken, RowRed, RowHosts(0, 0, 0), RowHosts(101, 0, 0)}

\* the documents of at most n of these rows
RECURSIVE GuardDocumentsUpTo(_)
GuardDocumentsUpTo(n) ==
  IF n = 0 THEN {<<>>}
  ELSE LET shorter == GuardDocumentsUpTo(n - 1)
       IN  shorter \cup {Append(d, r) : d \in shorter, r \in GuardRows}

\* the documents of at most n rows
RECURSIVE DocumentsUpTo(_)
DocumentsUpTo(n) ==
  IF n = 0 THEN {<<>>}
  ELSE LET shorter == DocumentsUpTo(n - 1)
       IN  shorter \cup {Append(d, r) : d \in shorter, r \in RowPool}


\* parser.js 13-42: the callback of one row
ParseRow ==
  /\ parsePc = "each"
  /\ rowIndex <= Len(htmlContent)
  /\ \E t1 \in clock..Len(ClockTicks) : \E t2 \in t1..Len(ClockTicks) :
       /\ clock' = t2
       /\ IF htmlContent[rowIndex].raises
          THEN IF rowErrorCaught
               THEN /\ rowIndex' = rowIndex + 1
                    /\ UNCHANGED <<alerts, parsePc>>
               ELSE /\ parsePc' = "thrown"
                    /\ UNCHANGED <<alerts, rowIndex>>
          ELSE /\ alerts' = alerts \o parseRow(htmlContent[rowIndex],
                                               ClockTicks[t1], ClockTicks[t2])
               /\ rowIndex' = rowIndex + 1
               /\ UNCHANGED parsePc
  /\ UNCHANGED htmlContent
  /\ UNCHANGED <<chatVars, ingestVars, embedVars>>

\* parser.js 44: return alerts
ParseReturn ==
  /\ parsePc = "each"
  /\ rowIndex > Len(htmlContent)
  /\ parsePc' = "returned"
  /\ UNCHANGED <<htmlContent, rowIndex, alerts, clock>>
  /\ UNCHANGED <<chatVars, ingestVars, embedVars>>

ParseNext ==
  \/ ParseRow
  \/ ParseReturn

(***************************************************************************)
(* Ingest route POST /api/upload/process and the store it writes to.       *)
(***************************************************************************)
\* the uploaded files: a name and the table rows of the document
FilePool ==
  { [originalname |-> "sample.html", content |-> <<RowRed, RowGreen>>],
    [originalname |-> "event.html", content |-> <<RowEvent>>],
    [originalname |-> "mixed.html", content |-> <<RowEvent, RowBroken, RowGreen>>] }

\* a message container of a chat export: a div with a title attribute that holds the
\* time, and the text of the message; it is no table row and has no td cells
MessageContainer(title, text) ==
  [bgcolor |-> <<>>, cells |-> <<>>, gap |-> <<>>, raises |-> FALSE,
   title |-> title, text |-> text]

MessageProblem ==
  MessageContainer(DateTable[1].text,
    <<"P","r","o","b","l","e","m"," ","n","a","m","e",":"," ","L","i","n","k"," ","d","o","w","n","\n","H","o","s","t",":"," ","R","o","u","t","e","r","-","0","7","\n","S","e","v","e","r","i","t","y",":"," ","H","i","g","h","\n","O","r","i","g","i","n","a","l"," ","p","r","o","b","l","e","m"," ","I","D",":"," ","4","7","1","1">>)

MessageChat ==
  MessageContainer(DateTable[2].text,
    <<"o","n"," ","m","y"," ","w","a","y"," ","t","o"," ","t","h","e"," ","s","i","t","e">>)

\* parser.js 13: $('table tr') selects the table rows of the document, nothing else
isTableRow(element) == "title" \notin DOMAIN element
tableRows(document) == SelectSeq(document, isTableRow)

\* uploaded chat exports: message containers only, and message containers around table
\* rows
MessageFilePool ==
  { [originalname |-> "messages42.html", content |-> <<MessageProblem, MessageChat>>],
    [originalname |-> "messages43.html", content |-> <<RowRed, MessageProblem>>],
    [originalname |-> "messages44.html",
     content |-> <<MessageProblem, RowEvent, MessageChat, RowNoId>>] }

\* req.files: at most n files
RECURSIVE FileListsUpTo(_)
FileListsUpTo(n) ==
  IF n = 0 THEN {<<>>}
  ELSE LET shorter == FileListsUpTo(n - 1)
       IN  shorter \cup {Append(fs, f) : fs \in shorter, f \in FilePool}

\* what the store holds of earlier ingests when the request arrives
StoredBefore ==
  { {},
    {[r EXCEPT !.status = "ACKNOWLEDGED"] @@ [embedding |-> "vector", file |-> 0, row |-> 1]
       : r \in Range(parseHTMLAlerts(<<RowRed>>, ClockTicks[1]))} }

\* upload.js 146
batchSize == 100

\* the decimal digits of a natural number
RECURSIVE NumText(_)
NumText(n) ==
  IF n < 10 THEN <<Digits[n + 1]>>
  ELSE NumText(n \div 10) \o <<Digits[(n % 10) + 1]>>

\* a row of a bulk export: date, status, host and the id of the problem written #n
RowNumbered(n) ==
  [bgcolor |-> <<>>,
   cells |-> <<[cls |-> <<>>, text |-> DateTable[1].text],
              [cls |-> <<>>, text |-> <<"R","o","u","t","e","r","-","0","1">>],
              [cls |-> <<>>, text |-> <<"P","R","O","B","L","E","M"," ","#">> \o NumText(n)]>>,
   gap |-> <<" ">>,
   raises |-> FALSE]

\* uploaded files with one alert more than a batch holds (upload.js 146-147): all ids
\* different, or the last row repeating the id of the first
BulkFilePool ==
  { [originalname |-> "bulk.html",
     content |-> [n \in 1..(batchSize + 1) |-> RowNumbered(n)]],
    [originalname |-> "repeat.html",
     content |-> [n \in 1..(batchSize + 1) |->
                   RowNumbered(IF n <= batchSize THEN n ELSE 1)]] }


\* the handler's local variables before the first file
NewRequest(files) ==
  [files |-> files,
   pc |-> "start",
   fileIndex |-> 0,          \* the file of req.files the loop stands at
   alerts |-> <<>>,
   alertIndex |-> 0,         \* the alert of alerts the inner loop stands at
   newAlerts |-> <<>>,
   skipped |-> 0,
   i |-> 0,                  \* upload.js 147: start of the next batch (0-based)
   totalAdded |-> 0,
   totalSkipped |-> 0,
   totalProcessed |-> 0,
   fileResults |-> <<>>,
   fileError |-> "none",
   response |-> [status |-> 0],
   \* not in the source: what happened to each alert of the current file, and which
   \* calls failed while each file was processed
   trace |-> <<>>,
   failed |-> <<>>]

\* supabase-setup.sql 11 (problem_id ... UNIQUE): the insert of a batch is refused as a
\* whole when a problem_id of it is stored already or occurs twice in it
violatesUnique(batch, table) ==
  \/ \E n \in 1..Len(batch) : \E row \in table : row.problem_id = batch[n].problem_id
  \/ \E m, n \in 1..Len(batch) : m # n /\ batch[m].problem_id = batch[n].problem_id

\* the loop over req.files goes on: the next file, or the response
nextFile(q) ==
  IF q.fileIndex < Len(q.files)
  THEN [q EXCEPT !.pc = "read", !.fileIndex = @ + 1]
  ELSE [q EXCEPT !.pc = "respond"]

\* the loop over alerts goes on: the next alert, or the batch insert (upload.js 124, 145)
nextAlert(q) ==
  IF q.alertIndex < Len(q.alerts)
  THEN [q EXCEPT !.pc = "exists", !.alertIndex = @ + 1]
  ELSE IF Len(q.newAlerts) > 0
       THEN [q EXCEPT !.pc = "insert", !.i = 0]
       ELSE [q EXCEPT !.pc = "record"]

\* upload.js 182-183: an error thrown inside the try block of the file
fileFails(q, errorMessage) == [q EXCEPT !.pc = "failRecord", !.fileError = errorMessage]

\* a call of the current file failed (bookkeeping, not in the source)
noteFailure(q, call) == [q EXCEPT !.failed[q.fileIndex] = @ \cup {call}]

\* upload.js 99-109: the request arrives with its files
IngestStart ==
  /\ ingest.pc = "start"
  /\ LET q == ingest
     IN  ingest' =
           IF Len(q.files) = 0
           THEN [q EXCEPT !.pc = "done",
                          !.response = [status |-> 400, error |-> "No files uploaded"]]
           ELSE nextFile([q EXCEPT !.failed = [k \in 1..Len(q.files) |-> {}]])
  /\ UNCHANGED <<alertsTable, fileUploads, faults, chatVars, parseVars, embedVars>>

\* upload.js 111-122: the file is read and parsed
ReadFile ==
  /\ ingest.pc = "read"
  /\ LET q == ingest
         file == q.files[q.fileIndex]
     IN  \/ /\ ingest' =
                 nextAlert([q EXCEPT !.alerts = parseHTMLAlerts(tableRows(file.content),
                                                                    ClockTicks[1]),
                                     !.alertIndex = 0,
                                     !.newAlerts = <<>>,
                                     !.skipped = 0,
                                     !.trace = <<>>])
            /\ UNCHANGED faults
         \/ /\ faults < MaxFaults                \* fs.readFile fails
            /\ faults' = faults + 1
            /\ ingest' =
                 fileFails(noteFailure(q, "readFile"), "read error")
  /\ UNCHANGED <<alertsTable, fileUploads, chatVars, parseVars, embedVars>>

\* supabase.js 158-166 alertExists: data !== null, whatever error is
alertExists(data, error) == IF error THEN FALSE ELSE data

\* upload.js 125-130: the existence check of one alert
CheckExists ==
  /\ ingest.pc = "exists"
  /\ LET q == ingest
         alert == q.alerts[q.alertIndex]
         present == \E row \in alertsTable : row.problem_id = alert.problem_id
         after(exists, error) ==
           LET seen == [q EXCEPT !.trace = Append(@,
                          [problem_id |-> alert.problem_id, present |-> present,
                           exists |-> exists, embedding |-> "not called"])]
               noted == IF error THEN noteFailure(seen, "alertExists") ELSE seen
           IN  IF exists
               THEN nextAlert([noted EXCEPT !.skipped = @ + 1])
               ELSE [noted EXCEPT !.pc = "embed"]
     IN  \/ /\ ingest' = after(alertExists(present, FALSE), FALSE)
            /\ UNCHANGED faults
         \/ /\ faults < MaxFaults                \* the store fails: data is null
            /\ faults' = faults + 1
            /\ ingest' = after(alertExists(present, TRUE), TRUE)
  /\ UNCHANGED <<alertsTable, fileUploads, chatVars, parseVars, embedVars>>

\* a catch block that drops the alert, for comparison
afterEmbeddingError_dropped(newAlerts, alert) == newAlerts

\* upload.js 137-141: the catch block of the embedding call
afterEmbeddingError(newAlerts, alert) == Append(newAlerts, alert)

\* upload.js 132-141: the embedding of one new alert
EmbedAlert ==
  /\ ingest.pc = "embed"
  /\ LET q == ingest
         alert == q.alerts[q.alertIndex] @@ [row |-> q.alertIndex]
     IN  \/ /\ ingest' =
                 nextAlert([q EXCEPT
                   !.newAlerts = Append(@, alert @@ [embedding |-> "vector"]),
                   !.trace[q.alertIndex].embedding = "ok"])
            /\ UNCHANGED faults
         \/ /\ faults < MaxFaults                \* generateAlertEmbedding throws
            /\ faults' = faults + 1
            /\ ingest' =
                 nextAlert([noteFailure(q, "embedding") EXCEPT
                   !.newAlerts = afterEmbeddingError(@, alert @@ [embedding |-> "none"]),
                   !.trace[q.alertIndex].embedding = "failed"])
  /\ UNCHANGED <<alertsTable, fileUploads, chatVars, parseVars, embedVars>>

\* upload.js 147-150 and supabase.js 139-151 insertAlerts: one batch
InsertBatch ==
  /\ ingest.pc = "insert"
  /\ LET q == ingest
         last == IF q.i + batchSize < Len(q.newAlerts) THEN q.i + batchSize
                 ELSE Len(q.newAlerts)
         batch == SubSeq(q.newAlerts, q.i + 1, last)
         rows == {batch[n] @@ [file |-> q.fileIndex] : n \in 1..Len(batch)}
     IN  \/ /\ violatesUnique(batch, alertsTable)
            /\ ingest' =
                 fileFails(noteFailure(q, "unique"), "duplicate key")
            /\ UNCHANGED <<alertsTable, faults>>
         \/ /\ ~violatesUnique(batch, alertsTable)
            /\ alertsTable' = alertsTable \cup rows
            /\ ingest' =
                 IF q.i + batchSize < Len(q.newAlerts)
                 THEN [q EXCEPT !.i = @ + batchSize]
                 ELSE [q EXCEPT !.pc = "record"]
            /\ UNCHANGED faults
         \/ /\ faults < MaxFaults                \* the store fails
            /\ faults' = faults + 1
            /\ ingest' =
                 fileFails(noteFailure(q, "insertAlerts"), "store error")
            /\ UNCHANGED alertsTable
  /\ UNCHANGED <<fileUploads, chatVars, parseVars, embedVars>>

\* upload.js 153-178: the upload record of a processed file, the totals, the result
RecordUpload ==
  /\ ingest.pc = "record"
  /\ LET q == ingest
         file == q.files[q.fileIndex]
     IN  \/ /\ fileUploads' = Append(fileUploads,
                 [file |-> q.fileIndex, filename |-> file.originalname,
                  records_count |-> Len(q.alerts), records_added |-> Len(q.newAlerts),
                  records_skipped |-> q.skipped, status |-> "completed"])
            /\ ingest' =
                 [q EXCEPT !.pc = "unlink",
                           !.totalAdded = @ + Len(q.newAlerts),
                           !.totalSkipped = @ + q.skipped,
                           !.totalProcessed = @ + Len(q.alerts),
                           !.fileResults = Append(@,
                              [file |-> q.fileIndex, filename |-> file.originalname,
                               totalAlerts |-> Len(q.alerts), added |-> Len(q.newAlerts),
                               skipped |-> q.skipped])]
            /\ UNCHANGED faults
         \/ /\ faults < MaxFaults                \* the store fails
            /\ faults' = faults + 1
            /\ ingest' =
                 fileFails(noteFailure(q, "insertFileUpload"), "store error")
            /\ UNCHANGED fileUploads
  /\ UNCHANGED <<alertsTable, chatVars, parseVars, embedVars>>

\* upload.js 180-181: the temporary file of a processed file is deleted
UnlinkFile ==
  /\ ingest.pc = "unlink"
  /\ LET q == ingest
     IN  \/ /\ ingest' = nextFile(q)
            /\ UNCHANGED faults
         \/ /\ faults < MaxFaults                \* fs.unlink fails
            /\ faults' = faults + 1
            /\ ingest' =
                 fileFails(noteFailure(q, "unlink"), "unlink error")
  /\ UNCHANGED <<alertsTable, fileUploads, chatVars, parseVars, embedVars>>

\* upload.js 185-196: the upload record of a failed file; its own failure is only logged
RecordFailure ==
  /\ ingest.pc = "failRecord"
  /\ LET q == ingest
         file == q.files[q.fileIndex]
     IN  \/ /\ fileUploads' = Append(fileUploads,
                 [file |-> q.fileIndex, filename |-> file.originalname,
                  records_count |-> 0, records_added |-> 0, records_skipped |-> 0,
                  status |-> "failed"])
            /\ ingest' = [q EXCEPT !.pc = "failUnlink"]
            /\ UNCHANGED faults
         \/ /\ faults < MaxFaults                \* the store fails
            /\ faults' = faults + 1
            /\ ingest' =
                 [noteFailure(q, "insertFileUpload failed") EXCEPT !.pc = "failUnlink"]
            /\ UNCHANGED fileUploads
  /\ UNCHANGED <<alertsTable, chatVars, parseVars, embedVars>>

\* upload.js 198-208: the temporary file of a failed file is deleted (a failure is only
\* logged) and the result of the file carries the error
CleanupFailure ==
  /\ ingest.pc = "failUnlink"
  /\ LET q == ingest
         file == q.files[q.fileIndex]
         done == nextFile([q EXCEPT !.fileResults = Append(@,
                    [file |-> q.fileIndex, filename |-> file.originalname,
                     error |-> q.fileError])])
     IN  \/ /\ ingest' = done
            /\ UNCHANGED faults
         \/ /\ faults < MaxFaults                \* fs.unlink fails
            /\ faults' = faults + 1
            /\ ingest' = done
  /\ UNCHANGED <<alertsTable, fileUploads, chatVars, parseVars, embedVars>>

\* upload.js 212-221: the response
Respond ==
  /\ ingest.pc = "respond"
  /\ LET q == ingest
     IN  ingest' =
           [q EXCEPT !.pc = "done",
                     !.response = [status |-> 200, success |-> TRUE,
                                   summary |-> [filesProcessed |-> Len(q.files),
                                                totalAlerts |-> q.totalProcessed,
                                                recordsAdded |-> q.totalAdded,
                                                recordsSkipped |-> q.totalSkipped],
                                   files |-> q.fileResults]]
  /\ UNCHANGED <<alertsTable, fileUploads, faults, chatVars, parseVars, embedVars>>

IngestNext ==
  \/ IngestStart
  \/ ReadFile
  \/ CheckExists
  \/ EmbedAlert
  \/ InsertBatch
  \/ RecordUpload
  \/ UnlinkFile
  \/ RecordFailure
  \/ CleanupFailure
  \/ Respond

(***************************************************************************)
(* The text an alert is embedded as, at the upload route and the scripts.  *)
(***************************************************************************)
\* values of alert fields: null, or a string
null == [type |-> "null"]
String(text) == [type |-> "string", text |-> text]

\* Boolean(value) of .filter(Boolean): null and the empty string are dropped
Boolean(value) == value.type = "string" /\ value.text # <<>>

\* String(value) inside Array.prototype.join: null becomes the empty string
joinText(value) == IF value.type = "null" THEN <<>> ELSE value.text

\* Array.prototype.join
RECURSIVE join(_, _)
join(values, separator) ==
  IF values = <<>> THEN <<>>
  ELSE IF Len(values) = 1 THEN joinText(values[1])
  ELSE joinText(values[1]) \o separator \o join(Tail(values), separator)

str_separator == <<" ", "|", " ">>

\* a composition that joins all six values, for comparison
textToEmbed_unfiltered(alert) ==
  join(<<alert.host, alert.alert_type, alert.description, alert.interface,
         alert.status, alert.severity>>, str_separator)

\* ragEngine.js 190-201 generateAlertEmbedding: textToEmbed
textToEmbed(alert) ==
  join(SelectSeq(<<alert.host, alert.alert_type, alert.description, alert.interface,
                   alert.status, alert.severity>>, Boolean), str_separator)

\* before an alert is parsed or stored
NoAlert == [host |-> null]

\* the six fields as the extractors of parser.js leave them: host, status and severity
\* are never empty, alert_type and description may be the empty string, interface may
\* be null (parser.js 97, 122, 141, 171, 217)
ParsedAlerts ==
  [host : {String(<<"R","o","u","t","e","r","-","0","1">>)},
   alert_type : {String(<<>>), String(<<"P","a","c","k","e","t"," ","l","o","s","s">>)},
   description : {String(<<>>), String(<<"l","i","n","k"," ","f","l","a","p">>)},
   interface : {null, String(<<"G","i","0","/","1">>)},
   status : {String(str_PROBLEM), String(str_OK)},
   severity : {String(str_WARNING), String(str_LOW)}]

\* upload.js 132-141 and supabase.js 139-151: the alert is embedded and stored by the
\* upload route; when the provider fails it is stored without embedding
EmbedAtIngest ==
  /\ embedPc = "ingest"
  /\ embedCalls' = Append(embedCalls, [site |-> "ingest", text |-> textToEmbed(parsedAlert)])
  /\ \/ storedAlert' = parsedAlert @@ [embedding |-> String(textToEmbed(parsedAlert))]
     \/ storedAlert' = parsedAlert @@ [embedding |-> null]
  /\ embedPc' = "stored"
  /\ UNCHANGED parsedAlert
  /\ UNCHANGED <<chatVars, parseVars, ingestVars>>

\* setupDatabase.js 203-212: the same by the script that loads the initial data
EmbedAtSetup ==
  /\ embedPc = "setup"
  /\ embedCalls' = Append(embedCalls, [site |-> "setup", text |-> textToEmbed(parsedAlert)])
  /\ \/ storedAlert' = parsedAlert @@ [embedding |-> String(textToEmbed(parsedAlert))]
     \/ storedAlert' = parsedAlert @@ [embedding |-> null]
  /\ embedPc' = "stored"
  /\ UNCHANGED parsedAlert
  /\ UNCHANGED <<chatVars, parseVars, ingestVars>>

\* generateEmbeddings.js 15-61: the script embeds the stored alerts that have no
\* embedding, from the row it read, and updates the row unless the provider fails
ReEmbed ==
  /\ embedPc = "stored"
  /\ IF storedAlert.embedding = null
     THEN /\ embedCalls' =
               Append(embedCalls, [site |-> "script", text |-> textToEmbed(storedAlert)])
          /\ \/ storedAlert' =
                  [storedAlert EXCEPT !.embedding = String(textToEmbed(storedAlert))]
             \/ UNCHANGED storedAlert
     ELSE UNCHANGED <<storedAlert, embedCalls>>
  /\ embedPc' = "done"
  /\ UNCHANGED parsedAlert
  /\ UNCHANGED <<chatVars, parseVars, ingestVars>>

EmbedNext ==
  \/ EmbedAtIngest
  \/ EmbedAtSetup
  \/ ReEmbed

(***************************************************************************)
(* Specifications: the chat endpoint, the parser, the ingest route.        *)
(***************************************************************************)
InitChat ==
  /\ chatPc = "idle"
  /\ message = [type |-> "undefined", text |-> <<>>]
  /\ engine = "none"
  /\ sqlQuery = <<>>
  /\ results = NullData
  /\ relevantAlerts = <<>>
  /\ history = <<>>
  /\ messages = <<>>
  /\ calls = NoCalls
  /\ response = NoResponse
  /\ parsePc = "returned"
  /\ htmlContent = <<>>
  /\ rowIndex = 1
  /\ alerts = <<>>
  /\ clock = 1
  /\ alertsTable = {}
  /\ fileUploads = <<>>
  /\ ingest = NewRequest(<<>>)
  /\ faults = 0
  /\ embedPc = "done"
  /\ parsedAlert = NoAlert
  /\ storedAlert = NoAlert
  /\ embedCalls = <<>>

InitParse ==
  /\ chatPc = "idle"
  /\ message = [type |-> "undefined", text |-> <<>>]
  /\ engine = "none"
  /\ sqlQuery = <<>>
  /\ results = NullData
  /\ relevantAlerts = <<>>
  /\ history = <<>>
  /\ messages = <<>>
  /\ calls = NoCalls
  /\ response = NoResponse
  /\ parsePc = "each"
  /\ htmlContent \in DocumentsUpTo(MaxRows)
  /\ rowIndex = 1
  /\ alerts = <<>>
  /\ clock = 1
  /\ alertsTable = {}
  /\ fileUploads = <<>>
  /\ ingest = NewRequest(<<>>)
  /\ faults = 0
  /\ embedPc = "done"
  /\ parsedAlert = NoAlert
  /\ storedAlert = NoAlert
  /\ embedCalls = <<>>

\* parseHTMLAlerts is called with a document of one row of host candidates, or with a
\* document of rows for the guard
InitHost ==
  /\ chatPc = "idle"
  /\ message = [type |-> "undefined", text |-> <<>>]
  /\ engine = "none"
  /\ sqlQuery = <<>>
  /\ results = NullData
  /\ relevantAlerts = <<>>
  /\ history = <<>>
  /\ messages = <<>>
  /\ calls = NoCalls
  /\ response = NoResponse
  /\ parsePc = "each"
  /\ htmlContent \in {<<row>> : row \in HostRows} \cup GuardDocumentsUpTo(MaxRows)
  /\ rowIndex = 1
  /\ alerts = <<>>
  /\ clock = 1
  /\ alertsTable = {}
  /\ fileUploads = <<>>
  /\ ingest = NewRequest(<<>>)
  /\ faults = 0
  /\ embedPc = "done"
  /\ parsedAlert = NoAlert
  /\ storedAlert = NoAlert
  /\ embedCalls = <<>>

InitIngest ==
  /\ chatPc = "idle"
  /\ message = [type |-> "undefined", text |-> <<>>]
  /\ engine = "none"
  /\ sqlQuery = <<>>
  /\ results = NullData
  /\ relevantAlerts = <<>>
  /\ history = <<>>
  /\ messages = <<>>
  /\ calls = NoCalls
  /\ response = NoResponse
  /\ parsePc = "returned"
  /\ htmlContent = <<>>
  /\ rowIndex = 1
  /\ alerts = <<>>
  /\ clock = 1
  /\ alertsTable \in StoredBefore
  /\ fileUploads = <<>>
  /\ ingest \in {NewRequest(files) : files \in FileListsUpTo(MaxFiles)}
  /\ faults = 0
  /\ embedPc = "done"
  /\ parsedAlert = NoAlert
  /\ storedAlert = NoAlert
  /\ embedCalls = <<>>

SpecChat == InitChat /\ [][ChatNext]_vars

SpecParse == InitParse /\ [][ParseNext]_vars

SpecHost == InitHost /\ [][ParseNext]_vars

SpecIngest == InitIngest /\ [][IngestNext]_vars

\* a request with one bulk file on an empty store, in which at most one call fails
InitBatch ==
  /\ chatPc = "idle"
  /\ message = [type |-> "undefined", text |-> <<>>]
  /\ engine = "none"
  /\ sqlQuery = <<>>
  /\ results = NullData
  /\ relevantAlerts = <<>>
  /\ history = <<>>
  /\ messages = <<>>
  /\ calls = NoCalls
  /\ response = NoResponse
  /\ parsePc = "returned"
  /\ htmlContent = <<>>
  /\ rowIndex = 1
  /\ alerts = <<>>
  /\ clock = 1
  /\ alertsTable = {}
  /\ fileUploads = <<>>
  /\ ingest \in {NewRequest(<<file>>) : file \in BulkFilePool}
  /\ faults = MaxFaults - 1
  /\ embedPc = "done"
  /\ parsedAlert = NoAlert
  /\ storedAlert = NoAlert
  /\ embedCalls = <<>>

SpecBatch == InitBatch /\ [][IngestNext]_vars

\* a request with one chat export on an empty store
InitDialect ==
  /\ chatPc = "idle"
  /\ message = [type |-> "undefined", text |-> <<>>]
  /\ engine = "none"
  /\ sqlQuery = <<>>
  /\ results = NullData
  /\ relevantAlerts = <<>>
  /\ history = <<>>
  /\ messages = <<>>
  /\ calls = NoCalls
  /\ response = NoResponse
  /\ parsePc = "returned"
  /\ htmlContent = <<>>
  /\ rowIndex = 1
  /\ alerts = <<>>
  /\ clock = 1
  /\ alertsTable = {}
  /\ fileUploads = <<>>
  /\ ingest \in {NewRequest(<<file>>) : file \in MessageFilePool}
  /\ faults = 0
  /\ embedPc = "done"
  /\ parsedAlert = NoAlert
  /\ storedAlert = NoAlert
  /\ embedCalls = <<>>

SpecDialect == InitDialect /\ [][IngestNext]_vars

\* one parsed alert, about to be embedded by the upload route or by the setup script
InitEmbed ==
  /\ chatPc = "idle"
  /\ message = [type |-> "undefined", text |-> <<>>]
  /\ engine = "none"
  /\ sqlQuery = <<>>
  /\ results = NullData
  /\ relevantAlerts = <<>>
  /\ history = <<>>
  /\ messages = <<>>
  /\ calls = NoCalls
  /\ response = NoResponse
  /\ parsePc = "returned"
  /\ htmlContent = <<>>
  /\ rowIndex = 1
  /\ alerts = <<>>
  /\ clock = 1
  /\ alertsTable = {}
  /\ fileUploads = <<>>
  /\ ingest = NewRequest(<<>>)
  /\ faults = 0
  /\ embedPc \in {"ingest", "setup"}
  /\ parsedAlert \in ParsedAlerts
  /\ storedAlert = NoAlert
  /\ embedCalls = <<>>

SpecEmbed == InitEmbed /\ [][EmbedNext]_vars

(***************************************************************************)
(* Properties of the chat endpoint (SpecChat).                             *)
(***************************************************************************)
\* the request has passed the validation of upload.js 416
accepted == chatPc # "idle" /\ ~messageRejected(message)

beginsWithSELECT(query) ==
  LET text == toUpperCase(trim(query))
  IN  Len(text) >= 6 /\ SubSeq(text, 1, 6) = str_SELECT

\* generateSQLQuery has returned a statement and executeSQLQuery has been called with it
executed ==
  /\ engine = "sql"
  /\ \/ chatPc = "format"
     \/ /\ chatPc = "done"
        /\ ~(response.status = 500 /\ response.details = "Failed to generate SQL query")

\* C2: a generated statement that does not begin with SELECT is answered with the error
\* 'Only SELECT queries are allowed'; neither the RPC nor the direct fetch is called and
\* the results are not formatted
C2_OnlySelectExecuted ==
  executed /\ ~beginsWithSELECT(sqlQuery) =>
    /\ chatPc = "done"
    /\ response = ErrorResponse("Only SELECT queries are allowed")
    /\ calls.rpc = 0 /\ calls.fetch = 0 /\ calls.format = 0

\* C2's case: the provider answered with a DELETE statement, which was rejected
C2_Witness ==
  /\ chatPc = "done" /\ engine = "sql"
  /\ sqlQuery = ProviderSQLTexts[4]
  /\ response = ErrorResponse("Only SELECT queries are allowed")
  /\ calls.completion = 1 /\ calls.rpc = 0 /\ calls.fetch = 0 /\ calls.format = 0

\* ragEngine.js 54-61: the answer given when the search has no hits
NoHitsResponse ==
  [status |-> 200, reply |-> [kind |-> "no_relevant_alerts"], type |-> "rag",
   metadata |-> [sources |-> <<>>, relevantCount |-> 0]]

\* C7: when the similarity search returns no hit (an empty list or null), the RAG engine
\* answers with the fixed text, type rag, no sources and relevantCount 0, and makes no
\* completion call
C7_NoHitsNoCompletion ==
  /\ chatPc = "answer" => Len(relevantAlerts) > 0
  /\ engine = "rag" /\ relevantAlerts = <<>> => calls.completion = 0
  /\ chatPc = "done" /\ engine = "rag" /\ calls.search = 1 /\ relevantAlerts = <<>>
       /\ response.status = 200
     => response = NoHitsResponse

\* C7's case: a question routed to the RAG engine whose search found nothing
C7_Witness ==
  /\ chatPc = "done" /\ engine = "rag"
  /\ calls.embedding = 1 /\ calls.search = 1 /\ calls.completion = 0
  /\ response = NoHitsResponse

\* C8: a result of exactly one row with exactly one column is answered with that value
\* directly; the formatter makes no completion call, so GENERATE's call is the only one;
\* 'How many total alerts do we have?' is routed to the SQL engine
C8_ScalarShortcut ==
  /\ accepted /\ message.text = ExampleQuestions[1] => engine = "sql"
  /\ chatPc = "done" /\ engine = "sql" /\ calls.format = 1 /\ ~results.isNull
       /\ Len(results.rows) = 1 /\ Cardinality(DOMAIN results.rows[1]) = 1
     => /\ response.status = 200
        /\ response.reply.kind = "scalar"
        /\ \A k \in DOMAIN results.rows[1] : response.reply.value = results.rows[1][k]
        /\ calls.completion = 1

\* C8's case: the count question, answered from a result of one row and one column
C8_Witness ==
  /\ chatPc = "done" /\ engine = "sql"
  /\ message.text = ExampleQuestions[1]
  /\ results = Data(<<[count |-> "42"]>>)
  /\ response.status = 200 /\ response.reply = [kind |-> "scalar", value |-> "42"]
  /\ calls.completion = 1 /\ calls.format = 1

(***************************************************************************)
(* Properties of the parser (SpecParse).                                   *)
(***************************************************************************)
\* what the rows that do not throw add to the batch, in document order, for every
\* reading of the clock
RECURSIVE validRecords(_)
validRecords(rows) ==
  IF rows = <<>> THEN {<<>>}
  ELSE LET first == IF Head(rows).raises THEN {<<>>}
                    ELSE {parseRow(Head(rows), ClockTicks[t1], ClockTicks[t2]) :
                            t1, t2 \in 1..Len(ClockTicks)}
       IN  {f \o rest : f \in first, rest \in validRecords(Tail(rows))}

\* C5: a document with rows on which an extractor throws never makes parseHTMLAlerts
\* throw; it returns exactly the records of the other rows, in document order
C5_BadRowsAreSkipped ==
  /\ parsePc # "thrown"
  /\ parsePc = "returned" => alerts \in validRecords(htmlContent)

\* C5's case: a throwing row between two valid rows; the two records are returned
C5_Witness ==
  /\ parsePc = "returned"
  /\ htmlContent = <<RowRed, RowBroken, RowEvent>>
  /\ Len(alerts) = 2
  /\ alerts[1].problem_id = <<"1","2","3","4","5">>
  /\ alerts[2].problem_id = <<"7","7","7">>

\* C6: the document of scenario A (a red row with PROBLEM and 'Problem ID: 12345', a
\* green row with OK and the same id) yields two records, the first with status PROBLEM,
\* the second with status OK, both with problem_id 12345
C6_ScenarioA ==
  parsePc = "returned" /\ htmlContent = <<RowRed, RowGreen>> =>
    /\ Len(alerts) = 2
    /\ alerts[1].status = str_PROBLEM
    /\ alerts[2].status = str_OK
    /\ alerts[1].problem_id = <<"1","2","3","4","5">>
    /\ alerts[2].problem_id = <<"1","2","3","4","5">>

(***************************************************************************)
(* Properties of the ingest route (SpecIngest).                            *)
(***************************************************************************)
\* the current file is in the catch block of upload.js 182-209
fileFailing == ingest.pc \in {"failRecord", "failUnlink"}

\* the result entries of file k
entriesOf(k) == {n \in DOMAIN ingest.fileResults : ingest.fileResults[n].file = k}

\* C3: a violation of the unique constraint on problem_id raised by an insert is a skip
\* of the offending alert: the file does not fail and gets no error entry
C3_DuplicateInsertIsSkip ==
  \A k \in DOMAIN ingest.failed :
    "unique" \in ingest.failed[k] =>
      /\ ~(ingest.fileIndex = k /\ fileFailing)
      /\ \A n \in entriesOf(k) : "error" \notin DOMAIN ingest.fileResults[n]

\* C4: an alert whose problem_id is stored when its existence check runs is counted as
\* skipped, gets no embedding call and is in no insert batch
C4_ExistingAlertsSkipped ==
  \A n \in DOMAIN ingest.trace :
    ingest.trace[n].present =>
      /\ ingest.trace[n].exists
      /\ ingest.trace[n].embedding = "not called"
      /\ \A m \in DOMAIN ingest.newAlerts : ingest.newAlerts[m].row # n

\* C9: an alert whose embedding call failed is still in the batch, without an
\* embedding; the failure alone never fails the file; the alerts after it are still
\* processed; when the file is recorded as completed the alert is stored without an
\* embedding and counted in records_added
C9_EmbeddingFailureTolerated ==
  /\ ingest.pc \in {"exists", "embed", "insert", "record", "unlink"} =>
       \A n \in DOMAIN ingest.trace :
         ingest.trace[n].embedding = "failed" =>
           \E m \in DOMAIN ingest.newAlerts :
             ingest.newAlerts[m].row = n /\ ingest.newAlerts[m].embedding = "none"
  /\ fileFailing => ingest.failed[ingest.fileIndex] # {"embedding"}
  /\ ingest.pc \in {"insert", "record", "unlink"} => Len(ingest.trace) = Len(ingest.alerts)
  /\ ingest.pc = "unlink" =>
       /\ fileUploads[Len(fileUploads)].status = "completed"
       /\ fileUploads[Len(fileUploads)].records_added = Len(ingest.newAlerts)
       /\ \A n \in DOMAIN ingest.trace :
            ingest.trace[n].embedding = "failed" =>
              \E row \in alertsTable :
                /\ row.file = ingest.fileIndex /\ row.row = n
                /\ row.problem_id = ingest.trace[n].problem_id
                /\ row.embedding = "none"

\* C9's case: the embedding of the first alert of a file failed, the second alert was
\* processed, and the file is recorded as completed with both alerts added
C9_Witness ==
  /\ ingest.pc = "unlink"
  /\ Len(ingest.trace) = 2
  /\ ingest.trace[1].embedding = "failed"
  /\ ingest.trace[2].embedding = "ok"
  /\ fileUploads[Len(fileUploads)].records_added = 2
  /\ \E row \in alertsTable : row.file = ingest.fileIndex /\ row.row = 1
                                /\ row.embedding = "none"

\* the calls of the store made while a file is processed
storeCalls == {"alertExists", "insertAlerts", "insertFileUpload", "unique"}

\* C10: in a request with several files, a file during which a call of the store failed
\* is marked failed (an upload record with status failed, unless the store refused that
\* record too, and a result entry with the error); the request is answered with success
\* and one result entry per file
C10_StoreErrorFailsOneFile ==
  ingest.pc = "done" /\ Len(ingest.files) > 1 =>
    /\ ingest.response.status = 200 /\ ingest.response.success
    /\ \A k \in DOMAIN ingest.failed :
         ingest.failed[k] \cap storeCalls # {} =>
           /\ \E n \in entriesOf(k) : "error" \in DOMAIN ingest.fileResults[n]
           /\ \/ "insertFileUpload failed" \in ingest.failed[k]
              \/ \E u \in DOMAIN fileUploads :
                   fileUploads[u].file = k /\ fileUploads[u].status = "failed"
    /\ \A k \in 1..Len(ingest.files) : Cardinality(entriesOf(k)) = 1
    /\ Len(ingest.response.files) = Len(ingest.files)

\* the files of the request whose processing has ended
finishedFiles ==
  {k \in 1..Len(ingest.files) : k < ingest.fileIndex \/ ingest.pc \in {"respond", "done"}}

\* the upload records of file k
recordsOf(k) == {u \in DOMAIN fileUploads : fileUploads[u].file = k}

\* C11: every file of an ingest request gets exactly one upload record (completed or
\* failed) on every path, a failing delete of the temporary file after the completed
\* record included; a file has no record only when the store refused its record
C11_OneUploadRecordPerFile ==
  \A k \in finishedFiles :
    \/ Cardinality(recordsOf(k)) = 1
    \/ /\ Cardinality(recordsOf(k)) = 0
       /\ "insertFileUpload failed" \in ingest.failed[k]

(***************************************************************************)
(* Properties of an ingest that stops between two batches (SpecBatch).     *)
(***************************************************************************)
\* the rows of the store that came from file k of the request
insertedOf(k) == {row \in alertsTable : row.file = k}

\* a batch insert of file k failed and nothing else of the file did
batchFailed(k) ==
  /\ ingest.failed[k] \cap {"insertAlerts", "unique"} # {}
  /\ ingest.failed[k] \subseteq {"insertAlerts", "unique", "alertExists", "embedding"}

\* C12: when a batch insert of a file fails after an earlier batch of the file was
\* stored, the upload record of the file and its entry in the response report as added
\* the number of alerts of the file that are in the store
C12_PartialIngestCounted ==
  \A k \in finishedFiles :
    batchFailed(k) /\ insertedOf(k) # {} =>
      /\ \A u \in recordsOf(k) :
           fileUploads[u].records_added = Cardinality(insertedOf(k))
      /\ \A n \in entriesOf(k) :
           /\ "added" \in DOMAIN ingest.fileResults[n]
           /\ ingest.fileResults[n].added = Cardinality(insertedOf(k))

\* the store only grows during an ingest: what a batch stored stays as it was stored
C12_InsertedDataIntact == [][alertsTable \subseteq alertsTable']_vars
(***************************************************************************)
(* Properties of the generated problem ids (SpecParse).                    *)
(***************************************************************************)
\* parser.js 183-193: one of the id patterns matches the text of the row
hasIdPattern(row) ==
  With(rowText(row), LAMBDA text :
    \/ regexCapture(text, label_ProblemID, TRUE, TRUE, IsDigit) # <<>>
    \/ regexCapture(text, label_ID, TRUE, TRUE, IsDigit) # <<>>
    \/ regexCapture(text, label_hash, FALSE, FALSE, IsDigit) # <<>>
    \/ regexCapture(text, label_EventID, TRUE, TRUE, IsDigit) # <<>>)

\* the rows of the pool for which extractProblemId generates the id
FallbackRows == {row \in RowPool : Len(row.cells) > 0 /\ ~row.raises /\ ~hasIdPattern(row)}

\* what the extractors return for the rows that take the fallback, at each clock reading
fallbackId == [row \in FallbackRows, t \in DOMAIN ClockTicks |->
                 extractProblemId(row, ClockTicks[t])]
fallbackHost == [row \in FallbackRows |-> extractHost(row)]
fallbackTime == [row \in FallbackRows, t \in DOMAIN ClockTicks |->
                   getTime(extractTimestamp(row, ClockTicks[t]))]

\* the rows of the document under parse that take the fallback
fallbackRowsOf(rows) == {rows[n] : n \in DOMAIN rows} \cap FallbackRows

\* C13: two rows without an id pattern that have the same extracted host and the same
\* millisecond timestamp get the same generated problem_id, of at most 20 characters
C13_FallbackIdDeterministic ==
  \A r1, r2 \in fallbackRowsOf(htmlContent) : \A t1, t2 \in DOMAIN ClockTicks :
    /\ Len(fallbackId[r1, t1]) <= 20
    /\ (fallbackHost[r1] = fallbackHost[r2] /\ fallbackTime[r1, t1] = fallbackTime[r2, t2])
         => fallbackId[r1, t1] = fallbackId[r2, t2]

\* C13's case: two different rows of one host, parsed within one clock tick, are
\* returned with the same generated id
C13_Witness ==
  /\ parsePc = "returned"
  /\ htmlContent = <<RowNoId, RowOk>>
  /\ Len(alerts) = 2
  /\ alerts[1].timestamp = alerts[2].timestamp
  /\ alerts[1].problem_id = <<"S","w","i","t","c","h","-","0","2","-">> \o
                             SubSeq(ClockTicks[1], 1, 10)
  /\ alerts[2].problem_id = alerts[1].problem_id
\* C14: two generated problem ids are equal only when the hosts of the two rows are
\* equal and their millisecond timestamps are equal
C14_FallbackIdsCollideOnlyOnSameHostAndTime ==
  \A r1, r2 \in fallbackRowsOf(htmlContent) : \A t1, t2 \in DOMAIN ClockTicks :
    fallbackId[r1, t1] = fallbackId[r2, t2]
      => fallbackHost[r1] = fallbackHost[r2] /\ fallbackTime[r1, t1] = fallbackTime[r2, t2]
(***************************************************************************)
(* Properties of the severity of a record (SpecParse).                     *)
(***************************************************************************)
\* parser.js 90-93: the words that set the severity
severityKeywords ==
  {str_DISASTER, str_CRITICAL, str_HIGH, str_AVERAGE, str_WARNING, str_LOW, str_INFORMATION}

\* the values extractSeverity returns (parser.js 90-97)
Severities == {str_CRITICAL, str_HIGH, str_WARNING, str_LOW}

\* the rows of the pool that parseHTMLAlerts passes to the extractors without an error
ParsableRows == {row \in RowPool : Len(row.cells) > 0 /\ ~row.raises}

\* the upper-cased text of the row contains one of the words
hasSeverityKeyword == [row \in ParsableRows |->
  \E word \in severityKeywords : includes(toUpperCase(rowText(row)), word)]

\* the severity and the status of the record of each row
severityOf == [row \in ParsableRows |-> extractSeverity(row)]
statusOf == [row \in ParsableRows |-> extractStatus(row)]

\* C15: a record of a row without a severity keyword has severity WARNING when its
\* status is PROBLEM and LOW for every other status; every severity is one of
\* CRITICAL, HIGH, WARNING, LOW
C15_SeverityDefault ==
  /\ \A n \in DOMAIN htmlContent :
       LET row == htmlContent[n]
       IN  row \in ParsableRows =>
             /\ severityOf[row] \in Severities
             /\ ~hasSeverityKeyword[row] =>
                  severityOf[row] = IF statusOf[row] = str_PROBLEM THEN str_WARNING
                                    ELSE str_LOW
  /\ \A n \in DOMAIN alerts : alerts[n].severity \in Severities

\* C15's case: rows without a severity keyword with status PROBLEM, OK and RESOLVED are
\* returned with severity WARNING, LOW and LOW
C15_Witness ==
  /\ parsePc = "returned"
  /\ htmlContent = <<RowGreen, RowOk, RowEvent>>
  /\ \A n \in 1..3 : ~hasSeverityKeyword[htmlContent[n]]
  /\ <<alerts[1].status, alerts[1].severity>> = <<str_PROBLEM, str_WARNING>>
  /\ <<alerts[2].status, alerts[2].severity>> = <<str_OK, str_LOW>>
  /\ <<alerts[3].status, alerts[3].severity>> = <<str_RESOLVED, str_LOW>>
(***************************************************************************)
(* Properties of the embedded text (SpecEmbed).                            *)
(***************************************************************************)
\* the six fields in the order of the composition
embeddedFields == <<"host", "alert_type", "description", "interface", "status", "severity">>

\* the strings of the fields of the alert that are not null, in that order
RECURSIVE nonNullFrom(_, _)
nonNullFrom(alert, n) ==
  IF n > Len(embeddedFields) THEN <<>>
  ELSE LET value == alert[embeddedFields[n]]
       IN  (IF value = null THEN <<>> ELSE <<value>>) \o nonNullFrom(alert, n + 1)

\* the strings of the fields of the alert that are neither null nor empty, in that order
RECURSIVE nonEmptyFrom(_, _)
nonEmptyFrom(alert, n) ==
  IF n > Len(embeddedFields) THEN <<>>
  ELSE LET value == alert[embeddedFields[n]]
       IN  (IF value = null \/ value = String(<<>>) THEN <<>> ELSE <<value>>)
             \o nonEmptyFrom(alert, n + 1)

\* every call site embedded the same text for the alert
sameAtEverySite ==
  \A m, n \in DOMAIN embedCalls : embedCalls[m].text = embedCalls[n].text

\* C16 as stated: the embedded text is the ' | '-joined concatenation of the non-null
\* values of host, alert_type, description, interface, status, severity in that order,
\* the same at every call site
C16_NonNullValuesJoined ==
  /\ \A n \in DOMAIN embedCalls :
       embedCalls[n].text = join(nonNullFrom(parsedAlert, 1), str_separator)
  /\ sameAtEverySite

\* C16 amended: the embedded text is the ' | '-joined concatenation of the values of
\* host, alert_type, description, interface, status, severity that are neither null nor
\* the empty string, in that order, the same at every call site
C16_NonEmptyValuesJoined ==
  /\ \A n \in DOMAIN embedCalls :
       embedCalls[n].text = join(nonEmptyFrom(parsedAlert, 1), str_separator)
  /\ sameAtEverySite

\* C16's case: an alert with an empty description and no interface was embedded by the
\* upload route, stored without embedding, and embedded again by the script
C16_Witness ==
  /\ embedPc = "done"
  /\ parsedAlert.description = String(<<>>)
  /\ parsedAlert.interface = null
  /\ parsedAlert.alert_type # String(<<>>)
  /\ Len(embedCalls) = 2
  /\ embedCalls[1].site = "ingest"
  /\ embedCalls[2].site = "script"
  /\ embedCalls[2].text =
       <<"R","o","u","t","e","r","-","0","1"," ","|"," ","P","a","c","k","e","t"," ",
         "l","o","s","s"," ","|"," ">> \o parsedAlert.status.text \o <<" ","|"," ">>
         \o parsedAlert.severity.text
(***************************************************************************)
(* Properties of the sources of a retrieval answer (SpecChat).             *)
(***************************************************************************)
\* C17: in every retrieval answer given with hits, metadata.sources has one entry per
\* hit of the similarity search, at most 10, in the order of the hits; relevantCount is
\* that number; every similarity is between 0.7 and 1.0
C17_SourcesAreTheHits ==
  (response.status = 200 /\ response.type = "rag" /\ response.reply.kind = "rag_answer") =>
    LET sources == response.metadata.sources
    IN  /\ Len(relevantAlerts) > 0
        /\ Len(sources) = Len(relevantAlerts)
        /\ Len(sources) <= 10
        /\ response.metadata.relevantCount = Len(sources)
        /\ \A n \in DOMAIN sources :
             /\ sources[n].problem_id = relevantAlerts[n].problem_id
             /\ sources[n].similarity = relevantAlerts[n].similarity
             /\ sources[n].similarity >= 70
             /\ sources[n].similarity <= 100

\* C17's case: twelve stored alerts are above the threshold, the answer names the ten
\* most similar ones, the most similar first
C17_Witness ==
  /\ response.status = 200
  /\ response.type = "rag"
  /\ response.reply.kind = "rag_answer"
  /\ Len(response.metadata.sources) = 10
  /\ response.metadata.relevantCount = 10
  /\ response.metadata.sources[1].similarity = 99
  /\ response.metadata.sources[10].similarity = 90
invalidMessage ==
  \/ message.type = "undefined"
  \/ message.type \notin {"undefined", "string"}
  \/ message.type = "string" /\ Len(message.text) = 0

\* C19: a chat request whose message is missing, empty or not a string is answered
\* with status 400 and 'Message is required' at once; no engine is chosen or called
\* and neither the provider nor the store is called
C19_InvalidMessageRejected ==
  (chatPc # "idle" /\ invalidMessage) =>
    /\ chatPc = "done"
    /\ response = [status |-> 400, error |-> "Message is required"]
    /\ engine = "none"
    /\ calls = NoCalls
    /\ sqlQuery = <<>> /\ results = NullData /\ relevantAlerts = <<>>

\* C19's case: a request with the empty string as message was rejected
C19_Witness ==
  /\ chatPc = "done"
  /\ message = [type |-> "string", text |-> <<>>]
  /\ response = [status |-> 400, error |-> "Message is required"]
  /\ calls = NoCalls
(***************************************************************************)
(* Properties of the records the parser accepts (SpecParse).               *)
(***************************************************************************)
\* C20: every record in the batch of the tabular parse, while it is built and when it
\* is returned, has a problem_id and a host that are not empty
C20_AcceptedRecordsHaveIdAndHost ==
  \A n \in DOMAIN alerts :
    /\ Len(alerts[n].problem_id) > 0
    /\ Len(alerts[n].host) > 0

\* C20's case: a row whose second cell is empty and a row without an id pattern are
\* returned with the host and the id the extractors fell back to
C20_Witness ==
  /\ parsePc = "returned"
  /\ htmlContent = <<RowOk, RowNoId, RowRed>>
  /\ cellText(RowOk, 1) = <<>>
  /\ ~hasIdPattern(RowNoId)
  /\ Len(alerts) = 3
  /\ alerts[1].host = <<"S","w","i","t","c","h","-","0","2">>
  /\ Len(alerts[2].problem_id) = 20
  /\ alerts[3].problem_id = <<"1","2","3","4","5">>
(***************************************************************************)
(* Properties of the parse of a chat export (SpecDialect).                 *)
(***************************************************************************)
label_OriginalProblemID ==
  <<"O","r","i","g","i","n","a","l"," ","p","r","o","b","l","e","m"," ","I","D",":">>

\* the problem id a message states on its line 'Original problem ID:', <<>> if none
messageProblemId(element) ==
  IF isTableRow(element) THEN <<>>
  ELSE regexCapture(element.text, label_OriginalProblemID, TRUE, TRUE, IsDigit)

\* the messages of a document that state a problem id
messagesWithId(document) ==
  {n \in DOMAIN document : messageProblemId(document[n]) # <<>>}

\* C21: a document made of message containers is parsed by a message-stream entry
\* point: it yields one record for each message in which a problem id was found, and
\* none for the other messages
C21_MessageStreamParsed ==
  \A u \in DOMAIN fileUploads :
    LET document == ingest.files[fileUploads[u].file].content
    IN  (fileUploads[u].status = "completed" /\ tableRows(document) = <<>>) =>
          fileUploads[u].records_count = Cardinality(messagesWithId(document))
(***************************************************************************)
(* Properties of the steps of an SQL request (SpecChat).                   *)
(***************************************************************************)
\* the steps of processSQLQuestion
sqlSteps == {"generate", "execute", "format"}

\* C22: an SQL request runs GENERATE, EXECUTE, FORMAT in that order, each at most once:
\* EXECUTE follows a GENERATE that returned a query, FORMAT follows an EXECUTE that
\* returned rows; when GENERATE fails or EXECUTE rejects or fails, no later step runs,
\* the endpoint answers with an error response, and no call is made a second time
C22_GenerateExecuteFormat ==
  [][ /\ chatPc' = "generate" => chatPc = "idle"
      /\ chatPc' = "execute" => (chatPc = "generate" /\ response' = NoResponse)
      /\ chatPc' = "format" =>
           /\ chatPc = "execute" /\ response' = NoResponse
           /\ isSelect(sqlQuery) /\ calls'.rpc = 1
      /\ (chatPc = "execute" /\ ~isSelect(sqlQuery)) =>
           chatPc' = "done" /\ calls'.rpc = 0 /\ calls'.fetch = 0
      /\ (chatPc \in sqlSteps /\ chatPc' \notin sqlSteps) => chatPc' = "done"
      /\ (chatPc \in {"generate", "execute"} /\ chatPc' = "done") =>
           /\ response'.status = 500
           /\ response'.error = "Failed to process your question"
           /\ calls'.format = 0
      /\ (chatPc = "generate" /\ chatPc' = "done") => calls'.rpc = 0 /\ calls'.fetch = 0
      /\ (chatPc = "format" /\ chatPc' = "done") => response'.status = 200
      /\ engine' = "sql" =>
           /\ calls'.sql = 1 /\ calls'.rag = 0
           /\ calls'.rpc <= 1 /\ calls'.fetch <= 1 /\ calls'.format <= 1
           /\ calls'.completion <= 1 + calls'.format
           /\ calls'.embedding = 0 /\ calls'.search = 0
    ]_vars

\* C22's case: GENERATE returned a statement that EXECUTE rejected; FORMAT did not run
\* and the endpoint answered with the error
C22_Witness ==
  /\ chatPc = "done"
  /\ engine = "sql"
  /\ calls.completion = 1
  /\ sqlQuery # <<>>
  /\ ~isSelect(sqlQuery)
  /\ calls.rpc = 0
  /\ calls.format = 0
  /\ response = ErrorResponse("Only SELECT queries are allowed")

\* C23: when the store fails to execute an accepted SELECT statement, executeSQLQuery
\* does not fail the request: it makes the direct fetch and returns its rows, the first
\* rows of table alerts, unfiltered and at most 100, and the request goes on to FORMAT;
\* an error leaves EXECUTE for an accepted statement only after the direct fetch was
\* made and failed too.
C23_FallbackFetch ==
  [][ (chatPc = "execute" /\ isSelect(sqlQuery)) =>
        /\ calls'.rpc = 1
        /\ chatPc' \in {"format", "done"}
        /\ chatPc' = "done" =>
             /\ calls'.fetch = 1
             /\ response'.status = 500
             /\ results' = results
        /\ (chatPc' = "format" /\ calls'.fetch = 1) =>
             /\ response' = NoResponse
             /\ ~results'.isNull
             /\ Len(results'.rows) <= 100
             /\ \E table \in ChatTables :
                  /\ Len(results'.rows) = IF Len(table) < 100 THEN Len(table) ELSE 100
                  /\ \A i \in 1..Len(results'.rows) : results'.rows[i] = table[i]
    ]_vars

\* the RPC failed, the direct fetch returned the first 100 rows of a table of 101, and
\* the request was answered from them
C23_Witness ==
  /\ chatPc = "done"
  /\ engine = "sql"
  /\ calls.rpc = 1
  /\ calls.fetch = 1
  /\ response.status = 200
  /\ Len(results.rows) = 100
  /\ response.metadata.resultCount = 100

\* C24: the rows executeSQLQuery returns to processSQLQuestion are never more than 100,
\* whether the RPC answered or the direct fetch did, whatever the statement was.
C24_RowCap ==
  (engine = "sql" /\ chatPc = "format") => Len(results.rows) <= 100

\* the result set is neither missing, nor empty, nor a single scalar
multiRowOrColumn(data) ==
  /\ ~data.isNull
  /\ Len(data.rows) > 0
  /\ ~(Len(data.rows) = 1 /\ Cardinality(DOMAIN data.rows[1]) = 1)

\* C25: FORMAT of a result of several rows or columns never raises; when the provider
\* fails the answer is the templated summary, which states the number of rows of the
\* whole result and lists, for at most the first 5 rows, the host or, when the row has
\* none, the problem_id; the request is answered with status 200.
C25_TemplateFallback ==
  [][ (chatPc = "format" /\ multiRowOrColumn(results)) =>
        /\ chatPc' = "done"
        /\ response'.status = 200
        /\ response'.type = "sql"
        /\ response'.reply.kind \in {"narrated", "template"}
        /\ response'.reply.kind = "template" =>
             /\ response'.reply.total = Len(results.rows)
             /\ Len(response'.reply.entries) =
                  (IF Len(results.rows) < 5 THEN Len(results.rows) ELSE 5)
             /\ \A i \in 1..Len(response'.reply.entries) :
                  LET row == results.rows[i]
                  IN  /\ ("host" \in DOMAIN row /\ row.host # "") =>
                           response'.reply.entries[i] = row.host
                      /\ (("host" \notin DOMAIN row \/ row.host = "")
                            /\ "problem_id" \in DOMAIN row) =>
                           response'.reply.entries[i] = row.problem_id
    ]_vars

\* the provider failed on a result of 101 rows: the summary names 101 rows and lists the
\* first five, the second by its problem_id
C25_Witness ==
  /\ chatPc = "done"
  /\ response.status = 200
  /\ response.reply.kind = "template"
  /\ response.reply.total = 101
  /\ response.reply.entries = <<"Router-01", "2", "Router-01", "Router-01", "Router-01">>

\* the rows sent to the completion provider by a FORMAT that was narrated
narratedRows == response.reply.shown

isNarrated ==
  /\ chatPc = "done"
  /\ engine = "sql"
  /\ response.status = 200
  /\ response.reply.kind = "narrated"

\* the rows sent are the first 20 rows of the result at most, in order, without embedding
firstTwentyWithoutEmbedding ==
  /\ Len(narratedRows) = (IF Len(results.rows) < 20 THEN Len(results.rows) ELSE 20)
  /\ \A i \in 1..Len(narratedRows) :
       /\ "embedding" \notin DOMAIN narratedRows[i]
       /\ \A k \in DOMAIN results.rows[i] \ {"embedding", "description"} :
            k \in DOMAIN narratedRows[i] /\ narratedRows[i][k] = results.rows[i][k]

\* C26 as claimed: the rows handed to the provider are at most the first 20 rows of the
\* result, none carries an embedding, and every description preview is at most 100
\* characters long.
C26_PreviewAtMost100 ==
  isNarrated =>
    /\ firstTwentyWithoutEmbedding
    /\ \A i \in 1..Len(narratedRows) : Len(narratedRows[i].description) <= 100

\* C26 as amended: the rows handed to the provider are at most the first 20 rows of the
\* result, none carries an embedding, and every preview of a description is its first 100
\* characters at most followed by "...", so at most 103 characters long.
C26_PreviewIsPrefixAndEllipsis ==
  isNarrated =>
    /\ firstTwentyWithoutEmbedding
    /\ \A i \in 1..Len(narratedRows) :
         LET preview == narratedRows[i].description
             row == results.rows[i]
         IN  /\ Len(preview) <= 103
             /\ ("description" \in DOMAIN row /\ row.description # <<>>) =>
                  LET kept == Len(preview) - 3
                  IN  /\ kept = (IF Len(row.description) < 100
                                 THEN Len(row.description) ELSE 100)
                      /\ \A j \in 1..kept : preview[j] = row.description[j]
                      /\ \A j \in (kept + 1)..Len(preview) : preview[j] = "."

\* a result of 101 rows was narrated from its first 20 rows; the description of the third
\* row, 130 characters long, was sent as a preview of 103 characters
C26_Witness ==
  /\ isNarrated
  /\ Len(results.rows) = 101
  /\ Len(narratedRows) = 20
  /\ Len(results.rows[3].description) = 130
  /\ Len(narratedRows[3].description) = 103

\* a RAG request whose search had hits and whose messages went to the completion provider
ragAnswered == chatPc = "done" /\ engine = "rag" /\ calls.completion = 1

\* C27: for a RAG request with hits and a history of n turns, the messages sent to the
\* completion provider are the system instruction, then the last min(n, 6) turns of the
\* history in their order, each with its role and content and nothing else, then one
\* user message that holds the context block followed by the question; no older turn
\* is sent.
C27_LastSixTurnsSent ==
  ragAnswered =>
    LET n == Len(history)
        sent == IF n < 6 THEN n ELSE 6
        context == formatAlertsContext(relevantAlerts)
        last == messages[Len(messages)]
    IN  /\ Len(relevantAlerts) > 0
        /\ Len(messages) = sent + 2
        /\ messages[1].role = "system"
        /\ \A i \in 1..sent :
             /\ messages[1 + i].role = history[n - sent + i].role
             /\ messages[1 + i].content = history[n - sent + i].content
        /\ \A i \in 1..Len(messages) : DOMAIN messages[i] = {"role", "content"}
        /\ last.role = "user"
        /\ SubSeq(last.content, 1, Len(context)) = context
        /\ SubSeq(last.content, Len(context) + 2, Len(context) + 1 + Len(message.text))
             = message.text

\* a request with a history of seven turns was answered: eight messages were sent, the
\* first turn of the history was left out and the second follows the system instruction
C27_Witness ==
  /\ ragAnswered
  /\ response.status = 200
  /\ Len(history) = 7
  /\ Len(messages) = 8
  /\ messages[2] = [role |-> "assistant", content |-> <<"turn", "2">>]
  /\ messages[7].content = <<"turn", "7">>

\* the three candidates of extractHost, in the order they are tried
hostCandidates(row) ==
  <<findByClass(row, str_host),
    cellText(row, 1),
    regexCapture(rowText(row), label_Host, TRUE, TRUE, IsHostChar)>>

\* C28: the host of a record is the first of the class-hinted text, the second cell and
\* the text after "Host:" whose length is in (0, 100], a candidate of exactly 100
\* characters being accepted, and "UNKNOWN" when no candidate has such a length.
C28_HostLengthUpTo100 ==
  (parsePc = "returned" /\ Len(htmlContent) = 1 /\ Len(alerts) = 1) =>
    LET candidates == hostCandidates(htmlContent[1])
        inRange == {n \in 1..3 : Len(candidates[n]) > 0 /\ Len(candidates[n]) <= 100}
    IN  alerts[1].host =
          (IF inRange = {} THEN str_UNKNOWN
           ELSE candidates[CHOOSE n \in inRange : \A m \in inRange : n <= m])

\* the rows among the first n of the document that have a td cell and on which no
\* extractor throws
rowsWithCells(n) ==
  {i \in 1..n : Len(htmlContent[i].cells) > 0 /\ ~htmlContent[i].raises}

\* C29: the guard of the row callback never rejects: every row with at least one td
\* cell on which no extractor throws adds exactly one record, whose host and problem_id
\* are not empty, so the records returned are as many as those rows.
C29_GuardNeverRejects ==
  /\ parsePc \in {"each", "returned"} =>
       /\ Len(alerts) = Cardinality(rowsWithCells(rowIndex - 1))
       /\ \A i \in 1..Len(alerts) : alerts[i].host # <<>> /\ alerts[i].problem_id # <<>>
  /\ parsePc = "returned" => Len(alerts) = Cardinality(rowsWithCells(Len(htmlContent)))

\* a document of a header row, a row without host candidate or id pattern and a row on
\* which an extractor throws was parsed: one record, of host "UNKNOWN" and an id made
\* of the host and the time
C29_Witness ==
  /\ parsePc = "returned"
  /\ htmlContent = <<RowHeader, RowHosts(0, 0, 0), RowBroken>>
  /\ Len(alerts) = 1
  /\ alerts[1].host = str_UNKNOWN
  /\ SubSeq(alerts[1].problem_id, 1, 8) = str_UNKNOWN \o <<"-">>

\* the per-file entries of the response that report counts, and the files that have an
\* entry with an error
completedEntries == SelectSeq(ingest.response.files, LAMBDA e : "added" \in DOMAIN e)

failedFiles ==
  {ingest.response.files[n].file :
     n \in {m \in 1..Len(ingest.response.files) : "error" \in DOMAIN ingest.response.files[m]}}

\* the sum of one count over the entries of the files that did not fail
RECURSIVE sumOfCompleted(_, _)
sumOfCompleted(entries, field) ==
  IF entries = <<>> THEN 0
  ELSE (IF Head(entries).file \in failedFiles THEN 0 ELSE Head(entries)[field])
         + sumOfCompleted(Tail(entries), field)

\* C30: for every file whose ingest completes, added + skipped = totalAlerts in its entry
\* of the response and in its upload record; the totals of the summary are the sums of
\* the entries of the completed files, a failed file contributing 0, and so
\* recordsAdded + recordsSkipped = totalAlerts in the summary.
C30_CountersAddUp ==
  (ingest.pc = "done" /\ ingest.response.status = 200) =>
    LET summary == ingest.response.summary
    IN  /\ \A n \in 1..Len(completedEntries) :
             completedEntries[n].added + completedEntries[n].skipped
               = completedEntries[n].totalAlerts
        /\ \A u \in DOMAIN fileUploads :
             fileUploads[u].status = "completed" =>
               fileUploads[u].records_added + fileUploads[u].records_skipped
                 = fileUploads[u].records_count
        /\ summary.totalAlerts = sumOfCompleted(completedEntries, "totalAlerts")
        /\ summary.recordsAdded = sumOfCompleted(completedEntries, "added")
        /\ summary.recordsSkipped = sumOfCompleted(completedEntries, "skipped")
        /\ summary.recordsAdded + summary.recordsSkipped = summary.totalAlerts
====
